---- MODULE Spec2Model ----
(***************************************************************************)
(* Execution-provenance collector of noWorkflow                            *)
(* (capture/noworkflow/now/collection/prov_execution/collector.py).        *)
(*                                                                         *)
(* The collector is a single-threaded engine whose hooks are invoked by    *)
(* the transformed script.  Every hook is one action; the hook bodies are  *)
(* operators on a working record `c` of the collector's fields, applied in *)
(* the order of the statements of the source.  The transformed script is   *)
(* the environment: `stack` holds the after-callables it still has to      *)
(* invoke (the host evaluation stack), innermost last.                     *)
(***************************************************************************)
EXTENDS Integers, Sequences, FiniteSets, TLC

VARIABLES
    evaluations,        \* evaluations_store: id -> Evaluation
    activations,        \* Activation objects by id (the <now> root included)
    activations_store,  \* ids held by activations_store, in insertion order
    dependencies,       \* dependencies_store
    values,             \* values_store
    compartments,       \* compartments_store
    code_components,    \* code_components_store (records added by lookup)
    exceptions,         \* exceptions_store
    heap,               \* Dependency objects of structures.py, by reference
    shared_types,       \* type object -> value id (0: unseen)
    global_evaluations, \* name -> evaluation id (0: none)
    last_activation,    \* Collector.last_activation
    functions,          \* the wrappers (new_function_def closures) defined so far
    last_partial_save,  \* Collector.last_partial_save
    save_frequency,     \* metascript.save_frequency (0: no partial save)
    marks,              \* per store: number of records already drained
    emitted,            \* per store: ids handed to the persistence layer
    flushes,            \* log of store() calls
    trial_updates,      \* Trial.fast_update calls
    clock,              \* host clock (datetime.now())
    script,             \* the kind of script under execution (the hooks it uses)
    stack,              \* pending after-callables of the transformed code
    actlog,             \* log of start_activation / close_activation calls
    metascript,         \* the referent of Collector.metascript, a weak proxy
    ev                  \* the hook call made by the last step

vars == <<evaluations, activations, activations_store, dependencies, values,
          compartments, code_components, exceptions, heap, shared_types,
          global_evaluations, last_activation, functions, last_partial_save,
          save_frequency, marks, emitted, flushes, trial_updates, clock, script,
          stack, actlog, metascript, ev>>

---------------------------------------------------------------------------
\* Bounds of the model

\* evaluations the run may create
MaxEvals == 5
\* nesting depth of pending after-callables
MaxStack == 4
\* depth of a scope stack below which the code opens a sub-expression
MaxScopes == 3
\* last reading of the host clock (the first one is 1)
MaxTime == 5
\* items of a collection literal
MaxItems == 3

---------------------------------------------------------------------------
\* Runtime objects of the instrumented program (identity = name)

\* id given by dry_add to the synthetic <now> evaluation/activation
NowId == -1
\* Python None where an id or a moment is expected
None == 0
\* definition id passed by call(): "no known definition"
NoDefinition == -1

TypeObjects == {"type", "int", "list", "dict", "function", "builtin", "NoneType", "module"}
ExprValues ==
    CASE script \in {"names", "collections", "calls"} -> {"one", "lst"}
      [] script = "unpacking" -> {"one", "two"}
      [] script = "nesting" -> {"one", "pair"}
      [] OTHER -> {"one"}

\* the integers a collection literal may hold, and repr() of each
ItemValues == {"one", "two"}
\* a list object the script holds, [1, 2], which a collection literal may hold too
Elements == ItemValues \cup {"pair"}
ItemRepr(o) == IF o = "one" THEN "1" ELSE IF o = "two" THEN "2" ELSE "[1, 2]"

\* repr() of a list with the given items
RECURSIVE Joined(_)
Joined(items) ==
    IF items = <<>> THEN ""
    ELSE IF Len(items) = 1 THEN ItemRepr(items[1])
    ELSE ItemRepr(items[1]) \o ", " \o Joined(Tail(items))
ListRepr(items) == "[" \o Joined(items) \o "]"

\* list objects with known items: the object a literal builds (tag "literal"), the
\* object a slice of such a list builds (tag "slice") and the object starred unpacking
\* binds to its target (tag "starred"); three objects with the same items are three
\* different objects
ListContents == UNION {[1..n -> Elements] : n \in 0..MaxItems}
ListTags == {"literal", "slice", "starred"}
ListObject(tag, items) == tag \o " " \o ListRepr(items)
BuiltLists == {ListObject(tag, items) : tag \in ListTags, items \in ListContents}

\* the items of a list object (no items for any other object)
Contents(o) ==
    IF o \in BuiltLists
    THEN CHOOSE items \in ListContents : \E tag \in ListTags : o = ListObject(tag, items)
    ELSE IF o = "pair" THEN <<"one", "two">>
    ELSE <<>>

\* the int objects used as keys of list items, and repr() of each
IndexObject(i) ==
    CASE i = 0 -> "0" [] i = 1 -> "1" [] i = 2 -> "2" [] i = 3 -> "3" [] OTHER -> "4"
IndexObjects == {IndexObject(i) : i \in 0..4}

\* sequence[start:stop] and the position of sequence[index] (0: IndexError), with
\* Python's negative indices
PySlice(items, start, stop) ==
    LET n == Len(items)
        lo == IF start < 0 THEN (IF n + start < 0 THEN 0 ELSE n + start)
              ELSE (IF start > n THEN n ELSE start)
        hi == IF stop < 0 THEN (IF n + stop < 0 THEN 0 ELSE n + stop)
              ELSE (IF stop > n THEN n ELSE stop)
    IN IF lo >= hi THEN <<>> ELSE SubSeq(items, lo + 1, hi)
PyIndex(items, index) ==
    IF index >= 0 /\ index < Len(items) THEN index + 1
    ELSE IF index < 0 /\ -index <= Len(items) THEN Len(items) + index + 1
    ELSE 0
\* a mapping passed as `**kw`, {'b': 1, 'y': 2}, and the keys of a mapping
Mappings == {"kw"}
Keys(o) == IF o = "kw" THEN <<"b", "y">> ELSE <<>>
\* the objects collection literals build
NewLists == {"lst1", "lst2", "lst3"}
NewDicts == {"dct1", "dct2", "dct3"}
Wrappers == {"f1", "f2"}
Builtins == {"len"}
Objects == TypeObjects \cup ExprValues \cup NewLists \cup NewDicts \cup Wrappers \cup Builtins
           \cup BuiltLists \cup IndexObjects \cup Mappings \cup {"None", "main"}
\* names the script reads, and every name a context may bind
ReadNames == {"x", "len"}
Names == ReadNames \cup {"a", "b", "c", "f", "y"}
Statuses == {"finished", "unfinished"}

\* type(value)
TypeOf(o) ==
    CASE o \in TypeObjects -> "type"
      [] o \in ItemValues \cup IndexObjects -> "int"
      [] o \in {"lst", "pair"} \cup NewLists \cup BuiltLists -> "list"
      [] o \in NewDicts \cup Mappings -> "dict"
      [] o \in Wrappers -> "function"
      [] o \in Builtins -> "builtin"
      [] o = "None" -> "NoneType"
      [] OTHER -> "module"

\* repr(value)
Repr(o) ==
    CASE o \in TypeObjects -> "<type '" \o o \o "'>"
      [] o \in Elements -> ItemRepr(o)
      [] o \in IndexObjects -> o
      [] o \in BuiltLists -> ListRepr(Contents(o))
      [] o \in {"lst"} \cup NewLists -> "[1]"
      [] o \in NewDicts -> "{1: 1}"
      [] o \in Mappings -> "{'b': 1, 'y': 2}"
      [] o \in Wrappers -> "<function f>"
      [] o \in Builtins -> "<built-in function " \o o \o ">"
      [] o = "None" -> "None"
      [] OTHER -> "<module '" \o o \o "'>"

\* isinstance(value, IMMUTABLE)
Immutable(o) == o \in ItemValues \cup IndexObjects \cup {"None"}

\* isiterable(value)
isiterable(o) == o \in {"lst", "pair"} \cup NewLists \cup NewDicts \cup BuiltLists

\* copy(__builtins__): the names lookup() resolves as globals
Globals == [n \in Builtins |-> n]

StoreKinds == <<"code_components", "evaluations", "activations", "dependencies", "values", "compartments", "file_accesses">>

\* code component ids handed in by the transformed code, one per capture site kind
CodeOf(hook) ==
    CASE hook = "script" -> 1
      [] hook = "literal" -> 2
      [] hook = "name" -> 3
      [] hook = "operation" -> 4
      [] hook = "dict" -> 5
      [] hook = "dict_value" -> 6
      [] hook = "list" -> 7
      [] hook = "item" -> 8
      [] hook = "func" -> 9
      [] hook = "call" -> 10
      [] hook = "argument" -> 11
      [] hook = "function_def" -> 12
      [] hook = "target" -> 13
      [] OTHER -> 14

\* the kinds of script the model runs, and the hooks each of them calls
Scripts == {"expressions", "names", "collections", "calls", "definitions", "unpacking", "nesting", "teardown",
            "sleeping", "building", "pairing", "callbacks", "shadowing",
            "timed"}
Repertoire(kind) ==
    CASE kind = "expressions" -> {"literal", "operation", "container"}
      [] kind = "names" -> {"literal", "name", "assign_value"}
      [] kind = "collections" -> {"literal", "dict", "list"}
      [] kind = "calls" -> {"literal", "func", "raise"}
      [] kind = "definitions" -> {"literal", "func", "function_def", "return"}
      [] kind = "unpacking" -> {"literal", "assign_value", "tuple", "unpack"}
      [] kind = "nesting" -> {"assign_value", "tuple", "unpack"}
      [] kind = "teardown" -> {"literal", "drop"}
      [] kind = "sleeping" -> {"func", "tick"}
      [] kind = "building" -> {"literal", "list", "tick"}
      [] kind = "pairing" -> {"literal", "dict", "tick"}
      [] kind = "shadowing" -> {"name", "assign_value"}
      [] kind = "callbacks" -> {"func", "function_def", "callback"}
      [] OTHER -> {"operation", "tick", "store"}
Uses(hook) == hook \in Repertoire(script)
\* the scripts made of unpacking assignments
Unpacking == script \in {"unpacking", "nesting"}

\* no wrapper defined under this name yet
NoFunction == [closure_activation |-> None, block_id |-> None,
               arguments |-> [args |-> <<>>, vararg |-> "", kwarg |-> "", kwonlyargs |-> <<>>],
               defaults |-> [kind |-> "none", dependencies |-> <<>>, key |-> "nokey", items |-> <<>>]]

Last(s) == s[Len(s)]
Front(s) == SubSeq(s, 1, Len(s) - 1)

---------------------------------------------------------------------------
\* structures.py: DependencyAware, CompartmentDependencyAware,
\* CollectionDependencyAware, Dependency; lightweight Activation, Evaluation

DependencyAware == [kind |-> "plain", dependencies |-> <<>>, key |-> "nokey", items |-> <<>>]
CompartmentDependencyAware == [kind |-> "compartment", dependencies |-> <<>>, key |-> "nokey", items |-> <<>>]
CollectionDependencyAware == [kind |-> "collection", dependencies |-> <<>>, key |-> "nokey", items |-> <<>>]

Dependency(activation_id, evaluation_id, value, value_id, mode) ==
    [activation_id |-> activation_id, evaluation_id |-> evaluation_id, value |-> value,
     value_id |-> value_id, mode |-> mode, arg |-> "", kind |-> "", sub_dependencies |-> <<>>]

\* Assign(moment, value, dependency): the dependency is one scope, or (AssignList) a
\* list of scopes
AssignRecord(moment, value, depa) ==
    [moment |-> moment, value |-> value, depa |-> depa, islist |-> FALSE, ldepa |-> <<>>]
AssignList(moment, value, depas) ==
    [moment |-> moment, value |-> value, depa |-> DependencyAware, islist |-> TRUE, ldepa |-> depas]

\* DependencyAware.join(depas): one plain scope with the dependencies of all
RECURSIVE JoinedDependencies(_)
JoinedDependencies(depas) ==
    IF depas = <<>> THEN <<>>
    ELSE Head(depas).dependencies \o JoinedDependencies(Tail(depas))
join(depas) == [DependencyAware EXCEPT !.dependencies = JoinedDependencies(depas)]

Evaluation(code_component_id, activation_id, moment, value_id) ==
    [code_component_id |-> code_component_id, activation_id |-> activation_id,
     moment |-> moment, value_id |-> value_id]

\* Activation(evaluation, name, start, code_block_id): the activation takes the id of
\* its evaluation, starts with an empty context and one plain scope, and its closure
\* is the activation it was started from
Activation(id, parent, name, start, code_block_id) ==
    [id |-> id, name |-> name, start |-> start, code_block_id |-> code_block_id,
     context |-> [n \in Names |-> None], dependencies |-> <<DependencyAware>>,
     assignments |-> <<>>, closure |-> parent, func |-> "None", depedency_type |-> ""]

---------------------------------------------------------------------------
\* The working record of a hook call: the collector's fields, the clock reading
\* and the fields as they were when the hook was entered

Persistent(c) ==
    <<c.evaluations, c.activations, c.activations_store, c.dependencies, c.values,
      c.compartments, c.code_components, c.exceptions, c.heap, c.shared_types,
      c.global_evaluations, c.last_activation>>

Fields ==
    [evaluations |-> evaluations, activations |-> activations,
     activations_store |-> activations_store, dependencies |-> dependencies,
     values |-> values, compartments |-> compartments,
     code_components |-> code_components, exceptions |-> exceptions, heap |-> heap,
     shared_types |-> shared_types, global_evaluations |-> global_evaluations,
     last_activation |-> last_activation, functions |-> functions,
     last_partial_save |-> last_partial_save,
     save_frequency |-> save_frequency, marks |-> marks, emitted |-> emitted,
     flushes |-> flushes, trial_updates |-> trial_updates, actlog |-> actlog,
     now |-> clock, raised |-> FALSE, star |-> <<>>]

Enter == [f \in DOMAIN Fields \cup {"entry"} |-> IF f = "entry" THEN Persistent(Fields) ELSE Fields[f]]

Commit(c) ==
    /\ evaluations' = c.evaluations
    /\ activations' = c.activations
    /\ activations_store' = c.activations_store
    /\ dependencies' = c.dependencies
    /\ values' = c.values
    /\ compartments' = c.compartments
    /\ code_components' = c.code_components
    /\ exceptions' = c.exceptions
    /\ heap' = c.heap
    /\ shared_types' = c.shared_types
    /\ global_evaluations' = c.global_evaluations
    /\ last_activation' = c.last_activation
    /\ last_partial_save' = c.last_partial_save
    /\ marks' = c.marks
    /\ emitted' = c.emitted
    /\ flushes' = c.flushes
    /\ trial_updates' = c.trial_updates
    /\ actlog' = c.actlog
    /\ functions' = c.functions
    /\ UNCHANGED <<save_frequency, script, metascript>>

\* number of records a store holds
StoreLen(c, kind) ==
    CASE kind = "code_components" -> Len(c.code_components)
      [] kind = "evaluations" -> Len(c.evaluations)
      [] kind = "activations" -> Len(c.activations_store)
      [] kind = "dependencies" -> Len(c.dependencies)
      [] kind = "values" -> Len(c.values)
      [] kind = "compartments" -> Len(c.compartments)
      [] OTHER -> 0

\* id of the n-th record of a store
StoreId(c, kind, n) == IF kind = "activations" THEN c.activations_store[n] ELSE n

---------------------------------------------------------------------------
\* Stores (ObjectStore): append-only buffers with a high-water mark

\* fault: a fast_store that hands the records over and forgets to move its mark
FastStoreKeepsMark(c, kind, partial) ==
    LET n == StoreLen(c, kind)
        fresh == [i \in 1..(n - c.marks[kind]) |-> StoreId(c, kind, c.marks[kind] + i)]
    IN [c EXCEPT !.emitted[kind] = @ \o fresh]

\* fast_store(trial_id, partial): hand the records above the mark to the
\* persistence layer, in insertion order, and move the mark
fast_store(c, kind, partial) ==
    LET n == StoreLen(c, kind)
        fresh == [i \in 1..(n - c.marks[kind]) |-> StoreId(c, kind, c.marks[kind] + i)]
    IN [c EXCEPT !.emitted[kind] = @ \o fresh, !.marks[kind] = n]

RECURSIVE StoreAll(_, _, _)
StoreAll(c, k, partial) ==
    IF k > Len(StoreKinds) THEN c
    ELSE StoreAll(fast_store(c, StoreKinds[k], partial), k + 1, partial)

Emitted(c) ==
    Len(c.emitted["code_components"]) + Len(c.emitted["evaluations"]) +
    Len(c.emitted["activations"]) + Len(c.emitted["dependencies"]) +
    Len(c.emitted["values"]) + Len(c.emitted["compartments"])

\* status the trial has in the relational store
TrialStatus(updates) == IF updates = <<>> THEN "running" ELSE Last(updates).status

\* Collector.store(partial, status)
store(c, partial, status) ==
    LET update(c1) ==
            IF ~partial
            THEN [c1 EXCEPT !.trial_updates =
                     Append(@, [main_id |-> CodeOf("script"), finish |-> c.now, status |-> status])]
            ELSE c1
        stored(c1) ==
            [update(c1) EXCEPT !.last_partial_save = c.now,
                               !.flushes = Append(@, [partial |-> partial, at |-> c.now,
                                                      mid |-> Persistent(c) # c.entry,
                                                      trial |-> TrialStatus(c.trial_updates),
                                                      drained |-> Emitted(c1) - Emitted(c),
                                                      orphan |-> \E e \in 1..Len(c.evaluations) :
                                                                    /\ c.evaluations[e].moment = None
                                                                    /\ e \notin DOMAIN c.activations])]
    IN stored(StoreAll(c, 1, partial))

\* fault: a time() that stores as soon as the save period has elapsed
TimeStoresAtFrequency(c) ==
    IF c.save_frequency # 0 /\ c.now - c.last_partial_save >= c.save_frequency
    THEN store(c, TRUE, "running")
    ELSE c

\* Collector.time()
time(c) ==
    IF c.save_frequency # 0 /\ c.now - c.last_partial_save > c.save_frequency
    THEN store(c, TRUE, "running")
    ELSE c

---------------------------------------------------------------------------
\* Value interner

\* add_value(value): returns [c, id]
RECURSIVE AddValueUnsharedType(_, _)
RECURSIVE add_value(_, _)
\* fault: an add_value that adds a Value for the type at every call and shares none
AddValueUnsharedType(c, value) ==
    IF value = "type"
    THEN [c |-> [c EXCEPT !.values = Append(@, [value |-> Repr(value), type_id |-> Len(@) + 1])],
          id |-> Len(c.values) + 1]
    ELSE LET typed(r) ==
                 [c |-> [r.c EXCEPT !.values = Append(@, [value |-> Repr(value), type_id |-> r.id])],
                  id |-> Len(r.c.values) + 1]
         IN typed(AddValueUnsharedType(c, TypeOf(value)))

\* fault: an add_value that leaves the placeholder type id on the type-of-types root
AddValueRootUntyped(c, value) ==
    IF value = "type"
    THEN [c |-> [c EXCEPT !.values = Append(@, [value |-> Repr(value), type_id |-> -1]),
                          !.shared_types[value] = Len(c.values) + 1],
          id |-> Len(c.values) + 1]
    ELSE LET value_type == TypeOf(value)
             shared(r) == [r.c EXCEPT !.shared_types[value_type] = r.id]
             typed(c1) ==
                 [c |-> [c1 EXCEPT !.values = Append(@, [value |-> Repr(value),
                                                         type_id |-> c1.shared_types[value_type]])],
                  id |-> Len(c1.values) + 1]
         IN typed(IF c.shared_types[value_type] = None
                  THEN shared(add_value(c, value_type))
                  ELSE c)

add_value(c, value) ==
    IF value = "type"
    THEN LET id == Len(c.values) + 1
             c1 == [c EXCEPT !.values = Append(@, [value |-> Repr(value), type_id |-> -1])]
             c2 == [c1 EXCEPT !.values[id].type_id = id]
         IN [c |-> [c2 EXCEPT !.shared_types[value] = id], id |-> id]
    ELSE LET value_type == TypeOf(value)
             shared(r) == [r.c EXCEPT !.shared_types[value_type] = r.id]
             typed(c1) ==
                 [c |-> [c1 EXCEPT !.values = Append(@, [value |-> Repr(value),
                                                         type_id |-> c1.shared_types[value_type]])],
                  id |-> Len(c1.values) + 1]
         IN typed(IF c.shared_types[value_type] = None
                  THEN shared(add_value(c, value_type))
                  ELSE c)

---------------------------------------------------------------------------
\* Activation manager

\* fault: a start_activation that gives the evaluation its own id as activation id
StartActivationSelfCaller(c, name, code_component_id, definition_id, act) ==
    LET id == Len(c.evaluations) + 1
        c1 == [c EXCEPT !.evaluations = Append(@, Evaluation(code_component_id, id, None, None))]
        c2 == time(c1)
        c3 == [c2 EXCEPT !.activations = @ @@ (id :> Activation(id, act, name, c.now, definition_id)),
                         !.activations_store = Append(@, id)]
    IN [c |-> [c3 EXCEPT !.last_activation = id, !.actlog = Append(@, <<"start", id>>)], id |-> id]

\* start_activation(name, code_component_id, definition_id, act): returns [c, id]
start_activation(c, name, code_component_id, definition_id, act) ==
    LET id == Len(c.evaluations) + 1
        c1 == [c EXCEPT !.evaluations = Append(@, Evaluation(code_component_id, act, None, None))]
        c2 == time(c1)
        c3 == [c2 EXCEPT !.activations = @ @@ (id :> Activation(id, act, name, c.now, definition_id)),
                         !.activations_store = Append(@, id)]
    IN [c |-> [c3 EXCEPT !.last_activation = id, !.actlog = Append(@, <<"start", id>>)], id |-> id]

\* fault: a close_activation that does not hand last_activation back to the caller
CloseActivationKeepsLast(c, activation, value_id) ==
    LET evaluation == c.activations[activation].id
        closed(c1) == [c1 EXCEPT !.evaluations[evaluation].moment = c.now,
                                 !.evaluations[evaluation].value_id = value_id,
                                 !.actlog = Append(@, <<"close", activation>>)]
    IN closed(time(c))

\* close_activation(activation, value_id)
close_activation(c, activation, value_id) ==
    LET evaluation == c.activations[activation].id
        caller(c2) == c2.evaluations[evaluation].activation_id
        found(c2) == \E i \in 1..Len(c2.activations_store) : c2.activations_store[i] = caller(c2)
        closed(c1) == [c1 EXCEPT !.evaluations[evaluation].moment = c.now,
                                 !.evaluations[evaluation].value_id = value_id]
        popped(c2) == [c2 EXCEPT !.last_activation = IF found(c2) THEN caller(c2) ELSE NowId,
                                 !.actlog = Append(@, <<"close", activation>>)]
    IN popped(closed(time(c)))

---------------------------------------------------------------------------
\* Scopes and Dependency objects

\* a new Dependency object: returns [c, ref]
Alloc(c, dep) == [c |-> [c EXCEPT !.heap = Append(@, dep)], ref |-> Len(c.heap) + 1]

\* activation.dependencies.append(scope)
Push(c, act, scope) == [c EXCEPT !.activations[act].dependencies = Append(@, scope)]

\* activation.dependencies.pop(): the scope popped is TopScope(c, act)
TopScope(c, act) == Last(c.activations[act].dependencies)
Pop(c, act) == [c EXCEPT !.activations[act].dependencies = Front(@)]

\* activation.dependencies[-1].add(dependency)
Add(c, act, ref) ==
    [c EXCEPT !.activations[act].dependencies =
        [@ EXCEPT ![Len(@)] = [@ EXCEPT !.dependencies = Append(@, ref)]]]

\* activation.dependencies[-1].add(Dependency(...))
AddNew(c, act, dep) == LET r == Alloc(c, dep) IN Add(r.c, act, r.ref)

BaseModes == {"assign", "assignment", "argument", "dependency", "item", "func", "collection", "decorate"}
\* mode.startswith("dependency"), mode.startswith("argument"), mode.endswith("-bind")
StartsWithDependency(mode) == mode \in {"dependency", "dependency-bind"}
StartsWithArgument(mode) == mode \in {"argument", "argument-bind"}
StartsWithAssign(mode) == mode \in {"assign", "assign-bind", "assignment", "assignment-bind"}
EndsWithBind(mode) == mode \in {m \o "-bind" : m \in BaseModes}

\* no scope given (depa=None)
NoDepa == [kind |-> "none", dependencies |-> <<>>, key |-> "nokey", items |-> <<>>]

\* index of the first dependency of the scope whose value is the object, 0 if none
FirstBound(c, depa, value) ==
    LET hits == {i \in 1..Len(depa.dependencies) : c.heap[depa.dependencies[i]].value = value}
    IN IF hits = {} THEN 0 ELSE CHOOSE i \in hits : \A j \in hits : i <= j

\* fault: a bind rule that puts the suffix in the place of the mode
FindValueIdDropsMode(c, value, depa, create) ==
    LET applies == depa.kind # "none" /\ (~Immutable(value) \/ Len(depa.dependencies) = 1)
        bound(i) ==
            IF i = 0 THEN [c |-> c, id |-> None]
            ELSE [c |-> [c EXCEPT !.heap[depa.dependencies[i]].mode = "-bind"],
                  id |-> c.heap[depa.dependencies[i]].value_id]
        found(r) == IF create /\ r.id = None THEN add_value(r.c, value) ELSE r
    IN found(bound(IF applies THEN FirstBound(c, depa, value) ELSE 0))

\* fault: a bind rule that treats immutable values like any other
FindValueIdAnyValue(c, value, depa, create) ==
    LET bound(i) ==
            LET ref == depa.dependencies[i]
                mode == c.heap[ref].mode
            IN IF i = 0 THEN [c |-> c, id |-> None]
               ELSE [c |-> IF StartsWithDependency(mode) THEN [c EXCEPT !.heap[ref].mode = "assign"]
                           ELSE IF ~EndsWithBind(mode) THEN [c EXCEPT !.heap[ref].mode = mode \o "-bind"]
                           ELSE c,
                     id |-> c.heap[ref].value_id]
        found(r) == IF create /\ r.id = None THEN add_value(r.c, value) ELSE r
    IN found(bound(IF depa.kind # "none" THEN FirstBound(c, depa, value) ELSE 0))

\* fault: a bind rule whose loop does not stop at the first dependency it matches
FindValueIdNoBreak(c, value, depa, create) ==
    LET applies == depa.kind # "none" /\ (~Immutable(value) \/ Len(depa.dependencies) = 1)
        hits == {depa.dependencies[i] : i \in {j \in 1..Len(depa.dependencies) :
                                                  c.heap[depa.dependencies[j]].value = value}}
        rule(mode) == IF StartsWithDependency(mode) THEN "assign"
                      ELSE IF ~EndsWithBind(mode) THEN mode \o "-bind" ELSE mode
        bound(i) ==
            IF i = 0 THEN [c |-> c, id |-> None]
            ELSE [c |-> [c EXCEPT !.heap = [o \in DOMAIN @ |->
                                              IF o \in hits THEN [@[o] EXCEPT !.mode = rule(@)] ELSE @[o]]],
                  id |-> c.heap[depa.dependencies[i]].value_id]
        found(r) == IF create /\ r.id = None THEN add_value(r.c, value) ELSE r
    IN found(bound(IF applies THEN FirstBound(c, depa, value) ELSE 0))

\* find_value_id(value, depa, create): the bind rule; returns [c, id]
find_value_id(c, value, depa, create) ==
    LET applies == depa.kind # "none" /\ (~Immutable(value) \/ Len(depa.dependencies) = 1)
        bound(i) ==
            LET ref == depa.dependencies[i]
                mode == c.heap[ref].mode
            IN IF i = 0 THEN [c |-> c, id |-> None]
               ELSE [c |-> IF StartsWithDependency(mode) THEN [c EXCEPT !.heap[ref].mode = "assign"]
                           ELSE IF ~EndsWithBind(mode) THEN [c EXCEPT !.heap[ref].mode = mode \o "-bind"]
                           ELSE c,
                     id |-> c.heap[ref].value_id]
        found(r) == IF create /\ r.id = None THEN add_value(r.c, value) ELSE r
    IN found(bound(IF applies THEN FirstBound(c, depa, value) ELSE 0))

\* the dependency edges of one scope, as create_dependencies adds them; `known` is the
\* number of evaluations the store holds when the edge is added
Edges(c, evaluation, depa) ==
    [i \in 1..Len(depa.dependencies) |->
        LET dep == c.heap[depa.dependencies[i]]
        IN [dependent_activation_id |-> c.evaluations[evaluation].activation_id,
            dependent_id |-> evaluation,
            dependency_activation_id |-> dep.activation_id,
            dependency_id |-> dep.evaluation_id,
            mode |-> dep.mode,
            known |-> Len(c.evaluations)]]

\* fault: a create_dependencies that adds no record
CreateDependenciesNone(c, evaluation, depa) == c

\* create_dependencies(evaluation, depa)
create_dependencies(c, evaluation, depa) ==
    [c EXCEPT !.dependencies = @ \o Edges(c, evaluation, depa)]

\* create_argument_dependencies(evaluation, depa)
create_argument_dependencies(c, evaluation, depa) ==
    LET arguments(all) ==
            LET arg(i) == StartsWithArgument(all[i].mode)
            IN [i \in 1..Cardinality({j \in 1..Len(all) : arg(j)}) |->
                   LET k == CHOOSE k \in 1..Len(all) :
                                arg(k) /\ Cardinality({j \in 1..k : arg(j)}) = i
                   IN [all[k] EXCEPT !.mode = "dependency"]]
    IN [c EXCEPT !.dependencies = @ \o arguments(Edges(c, evaluation, depa))]

\* evaluations.add_object(code_id, activation_id, moment, value_id)
AddEvaluation(c, code_id, activation_id, moment, value_id) ==
    [c EXCEPT !.evaluations = Append(@, Evaluation(code_id, activation_id, moment, value_id))]

\* fault: an evaluate that records the dependencies before it adds the evaluation
EvaluateDependsFirst(c, activation, code_id, value, moment, depa) ==
    LET at == IF moment = None THEN c.now ELSE moment
        edges(c1, id) ==
            [i \in 1..Len(depa.dependencies) |->
                [dependent_activation_id |-> activation,
                 dependent_id |-> id,
                 dependency_activation_id |-> c1.heap[depa.dependencies[i]].activation_id,
                 dependency_id |-> c1.heap[depa.dependencies[i]].evaluation_id,
                 mode |-> c1.heap[depa.dependencies[i]].mode,
                 known |-> Len(c1.evaluations)]]
        added(r) ==
            LET id == Len(r.c.evaluations) + 1
            IN [c |-> AddEvaluation([r.c EXCEPT !.dependencies = @ \o edges(r.c, id)],
                                    code_id, activation, at, r.id),
                id |-> id, value_id |-> r.id]
    IN added(find_value_id(IF moment = None THEN time(c) ELSE c, value, depa, TRUE))

\* evaluate(activation, code_id, value, moment, depa): returns [c, id, value_id]
evaluate(c, activation, code_id, value, moment, depa) ==
    LET at == IF moment = None THEN c.now ELSE moment
        added(r) ==
            LET id == Len(r.c.evaluations) + 1
            IN [c |-> create_dependencies(AddEvaluation(r.c, code_id, activation, at, r.id), id, depa),
                id |-> id, value_id |-> r.id]
    IN added(find_value_id(IF moment = None THEN time(c) ELSE c, value, depa, TRUE))

\* the evaluation bound to the name in the activation or along its closures
RECURSIVE ContextLookup(_, _, _, _)
ContextLookup(c, activation, name, seen) ==
    IF activation = None \/ activation \in seen THEN None
    ELSE IF c.activations[activation].context[name] # None
         THEN c.activations[activation].context[name]
         ELSE ContextLookup(c, c.activations[activation].closure, name, seen \cup {activation})

\* fault: a lookup that does not keep the global evaluation it makes for a builtin
LookupUncached(c, activation, name) ==
    LET local == ContextLookup(c, activation, name, {})
        added(r, code_id) ==
            LET id == Len(r.c.evaluations) + 1
            IN [c |-> AddEvaluation(r.c, code_id, -1, c.now, r.id), id |-> id]
        global(c1) == added(add_value(time(c1), Globals[name]), Len(c1.code_components))
    IN IF local # None THEN [c |-> c, id |-> local]
       ELSE IF c.global_evaluations[name] # None THEN [c |-> c, id |-> c.global_evaluations[name]]
       ELSE IF name \in DOMAIN Globals
            THEN global([c EXCEPT !.code_components = Append(@, [name |-> name, type |-> "global", mode |-> "w"])])
            ELSE [c |-> c, id |-> None]

\* lookup(activation, name): returns [c, id] (id None: no evaluation)
lookup(c, activation, name) ==
    LET local == ContextLookup(c, activation, name, {})
        added(r, code_id) ==
            LET id == Len(r.c.evaluations) + 1
            IN [c |-> [AddEvaluation(r.c, code_id, -1, c.now, r.id) EXCEPT !.global_evaluations[name] = id],
                id |-> id]
        global(c1) == added(add_value(time(c1), Globals[name]), Len(c1.code_components))
    IN IF local # None THEN [c |-> c, id |-> local]
       ELSE IF c.global_evaluations[name] # None THEN [c |-> c, id |-> c.global_evaluations[name]]
       ELSE IF name \in DOMAIN Globals
            THEN global([c EXCEPT !.code_components = Append(@, [name |-> name, type |-> "global", mode |-> "w"])])
            ELSE [c |-> c, id |-> None]

---------------------------------------------------------------------------
\* Expression hooks

\* fault: a literal hook that opens a scope of its own for the Dependency it adds
LiteralOpensScope(c, activation, code_id, value, mode) ==
    LET captured(c1, value_id) ==
            AddNew(Push(AddEvaluation(c1, code_id, activation, c.now, value_id), activation,
                        DependencyAware),
                   activation,
                   Dependency(activation, Len(c1.evaluations) + 1, value, value_id, mode))
        valued(r) == captured(time(r.c), r.id)
    IN [c |-> valued(add_value(c, value)), result |-> value]

\* literal(activation, code_id, value, mode): returns [c, result]
literal(c, activation, code_id, value, mode) ==
    LET captured(c1, value_id) ==
            AddNew(AddEvaluation(c1, code_id, activation, c.now, value_id), activation,
                   Dependency(activation, Len(c1.evaluations) + 1, value, value_id, mode))
        valued(r) == captured(time(r.c), r.id)
    IN [c |-> valued(add_value(c, value)), result |-> value]

\* fault: a name hook that interns the value it is given and never links the new
\* evaluation to the one the name is bound to
NameForgetsBinding(c, activation, has_code, code_id, nm, value, mode) ==
    literal(lookup(c, activation, nm).c, activation, code_id, value, mode)

\* name(activation, code_tuple, value, mode): returns [c, result]
name(c, activation, has_code, code_id, nm, value, mode) ==
    LET depend(c3, evaluation_id, old_eval) ==
            IF old_eval # None
            THEN [c3 EXCEPT !.dependencies = Append(@,
                     [dependent_activation_id |-> activation,
                      dependent_id |-> evaluation_id,
                      dependency_activation_id |-> c3.evaluations[old_eval].activation_id,
                      dependency_id |-> old_eval,
                      mode |-> "assignment",
                      known |-> Len(c3.evaluations)])]
            ELSE c3
        captured(c1, value_id, old_eval) ==
            depend(AddNew(AddEvaluation(c1, code_id, activation, c.now, value_id), activation,
                          Dependency(activation, Len(c1.evaluations) + 1, value, value_id, mode)),
                   Len(c1.evaluations) + 1, old_eval)
        valued(r, old_eval) == captured(time(r.c), r.id, old_eval)
        found(l) ==
            valued(IF l.id # None
                   THEN [c |-> l.c, id |-> l.c.evaluations[l.id].value_id]
                   ELSE add_value(l.c, value),
                   l.id)
    IN IF has_code
       THEN [c |-> found(lookup(c, activation, nm)), result |-> value]
       ELSE [c |-> c, result |-> value]

\* operation(activation)
operation(c, activation) == Push(c, activation, DependencyAware)

\* fault: an _operation that reads its scope and leaves it on the stack
OperationKeepsScope(c, activation, code_id, value, mode) ==
    LET depa == TopScope(c, activation)
        evaluated(r) == AddNew(r.c, activation, Dependency(activation, r.id, value, r.value_id, mode))
    IN [c |-> evaluated(evaluate(c, activation, code_id, value, None, depa)),
        result |-> value]

\* _operation(activation, code_id, value, mode): returns [c, result]
_operation(c, activation, code_id, value, mode) ==
    LET depa == TopScope(c, activation)
        evaluated(r) == AddNew(r.c, activation, Dependency(activation, r.id, value, r.value_id, mode))
    IN [c |-> evaluated(evaluate(Pop(c, activation), activation, code_id, value, None, depa)),
        result |-> value]

\* container(activation)
container(c, activation) == Push(c, activation, CompartmentDependencyAware)

\* _container(activation, code_id, value): returns [c, result]
_container(c, activation, code_id, value) ==
    [c |-> [c EXCEPT !.activations[activation].dependencies =
                [@ EXCEPT ![Len(@)] = [@ EXCEPT !.key = value]]],
     result |-> value]

\* compartments.add_object(tkey, moment, whole_id, part_id) for every collected item
AddCompartments(c, items, whole_id) ==
    [c EXCEPT !.compartments = @ \o
        [i \in 1..Len(items) |->
            [name |-> "[" \o Repr(items[i].key) \o "]", moment |-> items[i].moment,
             whole_id |-> whole_id, part_id |-> items[i].value_id]]]

\* dict(activation)
dict(c, activation) == Push(c, activation, CollectionDependencyAware)

\* _dict(activation, code_id, value, mode): returns [c, result]
_dict(c, activation, code_id, value, mode) ==
    LET depa == TopScope(c, activation)
        evaluated(r) ==
            AddNew(AddCompartments(r.c, depa.items, r.value_id), activation,
                   Dependency(activation, r.id, value, r.value_id, mode))
    IN [c |-> evaluated(evaluate(Pop(c, activation), activation, code_id, value, None, depa)),
        result |-> value]

\* dict_key(activation)
dict_key(c, activation) == Push(c, activation, CompartmentDependencyAware)

\* _dict_key(activation, code_id, value): returns [c, result]
_dict_key(c, activation, code_id, value) ==
    [c |-> [c EXCEPT !.activations[activation].dependencies =
                [@ EXCEPT ![Len(@)] = [@ EXCEPT !.key = value]]],
     result |-> value]

\* dict_value(activation)
dict_value(c, activation) == Push(c, activation, DependencyAware)

\* activation.dependencies[-1].items.append((key, value_id, moment))
AddItem(c, activation, key, value_id, moment) ==
    [c EXCEPT !.activations[activation].dependencies =
        [@ EXCEPT ![Len(@)] = [@ EXCEPT !.items =
            Append(@, [key |-> key, value_id |-> value_id, moment |-> moment])]]]

\* fault: a _dict_value that puts the item of the pair before the items collected
DictValuePrepends(c, activation, code_id, value) ==
    LET value_dependency_aware == TopScope(c, activation)
        popped == TopScope(Pop(c, activation), activation)
        compartment_dependency_aware ==
            [popped EXCEPT !.dependencies = @ \o value_dependency_aware.dependencies]
        first(c4, item) ==
            [c4 EXCEPT !.activations[activation].dependencies =
                [@ EXCEPT ![Len(@)] = [@ EXCEPT !.items = <<item>> \o @]]]
        added(c3, value_id) ==
            LET id == Len(c3.evaluations) + 1
            IN first(AddNew(create_dependencies(AddEvaluation(c3, code_id, activation, c.now, value_id),
                                                id, compartment_dependency_aware),
                            activation, Dependency(activation, id, value, value_id, "item")),
                     [key |-> compartment_dependency_aware.key, value_id |-> value_id, moment |-> c.now])
        valued(r) == added(time(r.c), r.id)
    IN [c |-> valued(find_value_id(Pop(Pop(c, activation), activation), value,
                                   value_dependency_aware, TRUE)),
        result |-> value]

\* _dict_value(activation, code_id, value): returns [c, result]
_dict_value(c, activation, code_id, value) ==
    LET value_dependency_aware == TopScope(c, activation)
        popped == TopScope(Pop(c, activation), activation)
        compartment_dependency_aware ==
            [popped EXCEPT !.dependencies = @ \o value_dependency_aware.dependencies]
        added(c3, value_id) ==
            LET id == Len(c3.evaluations) + 1
            IN AddItem(AddNew(create_dependencies(AddEvaluation(c3, code_id, activation, c.now, value_id),
                                                  id, compartment_dependency_aware),
                              activation, Dependency(activation, id, value, value_id, "item")),
                       activation, compartment_dependency_aware.key, value_id, c.now)
        valued(r) == added(time(r.c), r.id)
    IN [c |-> valued(find_value_id(Pop(Pop(c, activation), activation), value,
                                   value_dependency_aware, TRUE)),
        result |-> value]

\* list(activation), tuple(activation), set(activation)
list(c, activation) == Push(c, activation, CollectionDependencyAware)

\* _list(activation, code_id, value, mode): returns [c, result]
_list(c, activation, code_id, value, mode) ==
    LET depa == TopScope(c, activation)
        evaluated(r) ==
            AddNew(AddCompartments(r.c, depa.items, r.value_id), activation,
                   [Dependency(activation, r.id, value, r.value_id, mode)
                       EXCEPT !.sub_dependencies = depa.dependencies])
    IN [c |-> evaluated(evaluate(Pop(c, activation), activation, code_id, value, None, depa)),
        result |-> value]

\* item(activation)
item(c, activation) == Push(c, activation, DependencyAware)

\* fault: an _item that returns the key it was given
ItemReturnsKey(c, activation, code_id, value, key) ==
    LET k == IF key = "None" THEN value ELSE key
        value_dependency_aware == TopScope(c, activation)
        c1 == Pop(c, activation)
        added(c2, value_id) ==
            LET id == Len(c2.evaluations) + 1
            IN Alloc(create_dependencies(AddEvaluation(c2, code_id, activation, c.now, value_id),
                                         id, value_dependency_aware),
                     Dependency(activation, id, value, value_id, "item"))
        valued(r) == added(time(r.c), r.id)
        itemed(c4, ref, value_id) == AddItem(Add(c4, activation, ref), activation, k, value_id, c.now)
        collected(a) == itemed(time(a.c), a.ref, a.c.heap[a.ref].value_id)
    IN [c |-> collected(IF Len(value_dependency_aware.dependencies) = 1
                        THEN [c |-> c1, ref |-> value_dependency_aware.dependencies[1]]
                        ELSE valued(find_value_id(c1, value, value_dependency_aware, TRUE))),
        result |-> k]

\* _item(activation, code_id, value, key): returns [c, result]
_item(c, activation, code_id, value, key) ==
    LET k == IF key = "None" THEN value ELSE key
        value_dependency_aware == TopScope(c, activation)
        c1 == Pop(c, activation)
        added(c2, value_id) ==
            LET id == Len(c2.evaluations) + 1
            IN Alloc(create_dependencies(AddEvaluation(c2, code_id, activation, c.now, value_id),
                                         id, value_dependency_aware),
                     Dependency(activation, id, value, value_id, "item"))
        valued(r) == added(time(r.c), r.id)
        itemed(c4, ref, value_id) == AddItem(Add(c4, activation, ref), activation, k, value_id, c.now)
        collected(a) == itemed(time(a.c), a.ref, a.c.heap[a.ref].value_id)
    IN [c |-> collected(IF Len(value_dependency_aware.dependencies) = 1
                        THEN [c |-> c1, ref |-> value_dependency_aware.dependencies[1]]
                        ELSE valued(find_value_id(c1, value, value_dependency_aware, TRUE))),
        result |-> value]

---------------------------------------------------------------------------
\* Hook calls are reported in `ev`: the hook, the activation and the value it was
\* given, what it returned, and the depth of the activation's scope stack before
\* the corresponding before-hook (depth0), when the hook was entered (depthb) and
\* when it returned (depth1); for _call, the activation the matching call hook
\* started (started)

NoEv == [hook |-> "", act |-> None, value |-> "None", result |-> "None",
         depth0 |-> 0, depthb |-> 0, depth1 |-> 0, raised |-> FALSE, calls |-> <<>>,
         pattern |-> "", star |-> <<>>, items |-> <<>>, name |-> "", has_code |-> FALSE,
         started |-> None]

Depth(c, act) == Len(c.activations[act].dependencies)

\* a pending after-callable: the activation the code passes to the hooks, the depth
\* of its scope stack before the before-hook, for a running callable the activation
\* _call works on, the value the code is about to hand over, and the defaults scope
\* a function definition has captured
Frame(kind, act, depth0) ==
    [kind |-> kind, act |-> act, depth0 |-> depth0, call |-> None, value |-> "None",
     defaults |-> NoDepa]

Top == Last(stack)

Idle == stack = <<>>

TopKind == IF stack = <<>> THEN "idle" ELSE Top.kind

---------------------------------------------------------------------------
\* Script

\* start_script(module_name, code_component_id)
start_script(c, module_name, code_component_id) ==
    start_activation(c, module_name, code_component_id, code_component_id, c.last_activation)

\* close_script(now_activation)
close_script(c, now_activation) ==
    LET valued(r) == close_activation(r.c, now_activation, r.id)
    IN valued(add_value(c, c.activations[now_activation].name))

StartScript ==
    /\ Idle
    /\ activations_store = <<>>
    /\ Len(evaluations) < MaxEvals
    /\ \E r \in {start_script(Enter, "main", CodeOf("script"))} :
          /\ Commit(r.c)
          /\ stack' = <<Frame("script", r.id, 0)>>
          /\ ev' = [NoEv EXCEPT !.hook = "start_script", !.act = r.id]
    /\ UNCHANGED clock

CloseScript ==
    /\ Len(stack) = 1
    /\ Top.kind = "script"
    /\ Commit(close_script(Enter, Top.act))
    /\ stack' = <<>>
    /\ ev' = [NoEv EXCEPT !.hook = "close_script", !.act = Top.act]
    /\ UNCHANGED clock

\* the last reading of the clock in a run: a script whose call sleeps runs for two
\* save periods, any other for one
TimeBudget == IF script = "sleeping" THEN MaxTime ELSE MaxTime - 2

\* the host clock advances between statements, while a callable runs and between the
\* items of a collection display or the pairs of a dict display
Tick ==
    /\ Uses("tick")
    /\ TopKind \in {"idle", "script", "body", "running", "list", "dict"}
    /\ clock < TimeBudget
    /\ clock' = clock + 1
    /\ ev' = NoEv
    /\ UNCHANGED <<evaluations, activations, activations_store, dependencies, values,
                   compartments, code_components, exceptions, heap, shared_types,
                   global_evaluations, last_activation, functions, last_partial_save,
                   save_frequency, marks, emitted, flushes, trial_updates, script,
                   stack, actlog, metascript>>

\* the metascript while its owner holds it
Alive == [alive |-> TRUE, records |-> 0, flushes |-> 0]

\* number of records in the stores of the collector
Records(c) ==
    Len(c.code_components) + Len(c.evaluations) + Len(c.activations_store) + Len(c.dependencies)
    + Len(c.values) + Len(c.compartments) + Len(c.exceptions)

\* the owner lets go of the metascript while the transformed code still runs: the
\* proxy of the collector is dead from then on, the stores stay with the collector;
\* the numbers of records and of store() calls at that moment are kept. A store() of
\* the collector reads trial_id through the proxy: the metascript is dropped only in
\* a run that makes no partial save
DropMetascript ==
    /\ Uses("drop")
    /\ metascript.alive
    /\ save_frequency = 0
    /\ TopKind = "script"
    /\ metascript' = [alive |-> FALSE, records |-> Records(Fields), flushes |-> Len(flushes)]
    /\ ev' = NoEv
    /\ UNCHANGED <<evaluations, activations, activations_store, dependencies, values,
                   compartments, code_components, exceptions, heap, shared_types,
                   global_evaluations, last_activation, functions, last_partial_save,
                   save_frequency, marks, emitted, flushes, trial_updates, clock, script,
                   stack, actlog>>

\* the owner of the collector makes the final store, between two statements of the
\* script or after it
FinalStore ==
    /\ Uses("store")
    /\ metascript.alive
    /\ activations_store # <<>>
    /\ TopKind \in {"idle", "script", "body"}
    /\ TrialStatus(trial_updates) = "running"
    /\ \E status \in Statuses : Commit(store(Enter, FALSE, status))
    /\ ev' = [NoEv EXCEPT !.hook = "store"]
    /\ UNCHANGED <<clock, stack>>

---------------------------------------------------------------------------
\* Calls

\* func.__name__
NameOf(func) == IF func \in Wrappers THEN "f" ELSE func

\* fault: a func hook that opens no scope for the callee expression
FuncPushesNothing(c, activation) == c

\* func(activation)
func(c, activation) == Push(c, activation, DependencyAware)

\* call(activation, code_id, func, mode): returns [c, id]
call(c, activation, code_id, fn, mode) ==
    LET started(r) ==
            [c |-> [Push(r.c, r.id, DependencyAware) EXCEPT !.activations[r.id].func = fn,
                                                            !.activations[r.id].depedency_type = mode],
             id |-> r.id]
    IN started(start_activation(c, NameOf(fn), code_id, NoDefinition, activation))

\* _func(activation, code_id, func_id, func, mode): returns [c, id] (id: the activation started)
_func(c, activation, code_id, func_id, fn, mode) ==
    LET dependency_aware == TopScope(c, activation)
        c1 == Pop(c, activation)
        made(r) == Alloc(r.c, Dependency(activation, r.id, fn, r.value_id, "func"))
        added(k, ref) == [c |-> Add(k.c, k.c.last_activation, ref), id |-> k.id]
        called(a) == added(call(a.c, activation, code_id, fn, mode), a.ref)
    IN called(IF Len(dependency_aware.dependencies) = 1
              THEN [c |-> c1, ref |-> dependency_aware.dependencies[1]]
              ELSE made(evaluate(time(c1), activation, func_id, fn, c.now, dependency_aware)))

\* argument(activation)
argument(c, activation) == Push(c, activation, DependencyAware)

\* _argument(activation, code_id, value, mode, arg, kind): returns [c, result]
_argument(c, activation, code_id, value, mode, arg, kind) ==
    LET m == IF mode = "" THEN "argument" ELSE mode
        kd == IF kind = "" THEN "argument" ELSE kind
        dependency_aware == TopScope(c, activation)
        c1 == Pop(c, activation)
        made(r) == Alloc(r.c, Dependency(activation, r.id, value, r.value_id, m))
        added(c3, ref) == Add(c3, c3.last_activation, ref)
        tagged(a) == added([a.c EXCEPT !.heap[a.ref].arg = arg, !.heap[a.ref].kind = kd], a.ref)
    IN [c |-> tagged(IF Len(dependency_aware.dependencies) = 1
                     THEN [c |-> c1, ref |-> dependency_aware.dependencies[1]]
                     ELSE made(evaluate(time(c1), activation, code_id, value, c.now, dependency_aware))),
        result |-> value]

\* collect_exception(now_activation)
collect_exception(c, now_activation) ==
    [c EXCEPT !.exceptions = Append(@, [exc |-> "exc", activation_id |-> now_activation])]

\* the loop of _call over activation.dependencies: find_value_id(result, depa, create=False)
\* on each scope until one gives a value id; returns [c, id]
RECURSIVE FindInScopes(_, _, _, _)
FindInScopes(c, activation, result, k) ==
    IF k > Len(c.activations[activation].dependencies) THEN [c |-> c, id |-> None]
    ELSE LET next(r) == IF r.id # None THEN r ELSE FindInScopes(r.c, activation, result, k + 1)
         IN next(find_value_id(c, result, c.activations[activation].dependencies[k], FALSE))

\* the finally clause of _call
CallFinally(c, activation, result) ==
    LET evaluation == c.activations[activation].id
        arguments(c2, depa) ==
            IF c2.activations[activation].code_block_id = -1
            THEN create_argument_dependencies(c2, evaluation, depa)
            ELSE c2
        depend(c1, depa) == arguments(create_dependencies(c1, evaluation, depa), depa)
        closed(c1) == depend(c1, c1.activations[activation].dependencies[1])
        valued(r) == closed(close_activation(r.c, activation, r.id))
        found(f) == valued(IF f.id = None THEN add_value(f.c, result) ELSE f)
    IN found(FindInScopes(c, activation, result, 1))

\* _call once activation.func has returned `result`: returns [c, result]
CallReturned(c, activation, result) ==
    LET evaluation == c.activations[activation].id
        added(c1, r) ==
            [c |-> AddNew(r.c, c1.last_activation,
                          Dependency(c1.evaluations[evaluation].activation_id, evaluation, result,
                                     r.id, c1.activations[activation].depedency_type)),
             result |-> result]
        finished(c1) == added(c1, add_value(c1, result))
    IN finished(CallFinally(c, activation, result))

\* fault: a _call that lets the exception pass without recording it
CallRaisedUnrecorded(c, activation) == CallFinally(c, activation, "None")

\* _call once activation.func has raised: the exception goes on to the caller
CallRaised(c, activation) == CallFinally(collect_exception(c, activation), activation, "None")

---------------------------------------------------------------------------
\* Function definitions and parameter matching

\* the argument descriptor the definition-time analyser gives for `def f(a, b=...)`
Arguments == [args |-> <<"a", "b">>, vararg |-> "", kwarg |-> "", kwonlyargs |-> <<>>]

\* Parameter(name, code_id, is_vararg)
Parameter(nm, is_vararg) ==
    [name |-> nm, code_id |-> CodeOf("param"), is_vararg |-> is_vararg, filled |-> FALSE, default |-> None]

\* the parameters _match_arguments creates, in order, defaults attached
Parameters(arguments, defaults) ==
    LET len_positional == Len(arguments.args) - Len(defaults)
        positional == [p \in 1..Len(arguments.args) |->
                          IF p - 1 > len_positional
                          THEN [Parameter(arguments.args[p], FALSE) EXCEPT !.default = defaults[p - 1 - len_positional + 1]]
                          ELSE Parameter(arguments.args[p], FALSE)]
    IN positional
       \o (IF arguments.vararg # "" THEN <<Parameter(arguments.vararg, TRUE)>> ELSE <<>>)
       \o [p \in 1..Len(arguments.kwonlyargs) |-> Parameter(arguments.kwonlyargs[p], FALSE)]
       \o (IF arguments.kwarg # "" THEN <<Parameter(arguments.kwarg, FALSE)>> ELSE <<>>)

\* fault: a match that leaves on the argument the mode the bind rule gave it
MatchLeavesBind(c, activation, moment, arg, param) ==
    LET c1 == [c EXCEPT !.heap[arg].mode = "argument"]
        bound(r) == [r.c EXCEPT !.activations[activation].context[param.name] = r.id]
    IN bound(evaluate(c1, activation, param.code_id, c.heap[arg].value, moment,
                      [DependencyAware EXCEPT !.dependencies = <<arg>>]))

\* match(arg, param) of _match_arguments
match(c, activation, moment, arg, param) ==
    LET c1 == [c EXCEPT !.heap[arg].mode = "argument"]
        bound(r) == [r.c EXCEPT !.heap[arg].mode = "argument",
                                !.activations[activation].context[param.name] = r.id]
    IN bound(evaluate(c1, activation, param.code_id, c.heap[arg].value, moment,
                      [DependencyAware EXCEPT !.dependencies = <<arg>>]))

\* the dependencies of a scope that have an argument mode and the given kind
OfKind(c, depa, kind) ==
    LET D == depa.dependencies
        ok(i) == StartsWithArgument(c.heap[D[i]].mode) /\ c.heap[D[i]].kind = kind
    IN [i \in 1..Cardinality({j \in 1..Len(D) : ok(j)}) |->
           D[CHOOSE k \in 1..Len(D) : ok(k) /\ Cardinality({j \in 1..k : ok(j)}) = i]]

\* "Match args", arg.arg == "*": one parameter for each of the n items of the value,
\* up to the vararg parameter
RECURSIVE MatchStar(_, _, _, _, _)
MatchStar(s, activation, moment, arg, n) ==
    IF n = 0 \/ s.raised THEN s
    ELSE IF s.last_unfilled > Len(s.params) THEN [s EXCEPT !.raised = TRUE]
    ELSE LET next(matched) ==
                 IF s.params[s.last_unfilled].is_vararg THEN matched
                 ELSE MatchStar([matched EXCEPT !.params[s.last_unfilled].filled = TRUE,
                                                !.last_unfilled = @ + 1],
                                activation, moment, arg, n - 1)
         IN next([s EXCEPT !.c = match(s.c, activation, moment, arg, s.params[s.last_unfilled])])

\* "Match args": s = [c, params, last_unfilled, raised]
RECURSIVE MatchArgs(_, _, _, _, _)
MatchArgs(s, activation, moment, arguments, k) ==
    IF k > Len(arguments) \/ s.raised THEN s
    ELSE IF s.c.heap[arguments[k]].arg = "*"
    THEN MatchArgs(MatchStar(s, activation, moment, arguments[k],
                             Len(Contents(s.c.heap[arguments[k]].value))),
                   activation, moment, arguments, k + 1)
    ELSE IF s.last_unfilled > Len(s.params) THEN [s EXCEPT !.raised = TRUE]
    ELSE LET param == s.params[s.last_unfilled]
             filled == IF param.is_vararg THEN s
                       ELSE [s EXCEPT !.params[s.last_unfilled].filled = TRUE,
                                      !.last_unfilled = @ + 1]
         IN MatchArgs([filled EXCEPT !.c = match(s.c, activation, moment, arguments[k], param)],
                      activation, moment, arguments, k + 1)

\* index of the parameter with the name, 0 if none
ParamIndex(params, nm) ==
    IF \E i \in 1..Len(params) : params[i].name = nm
    THEN CHOOSE i \in 1..Len(params) : params[i].name = nm
    ELSE 0

\* "Match keywords", keyword.arg == "**": the keys of the mapping that are parameters
RECURSIVE MatchMapping(_, _, _, _, _)
MatchMapping(s, activation, moment, keyword, keys) ==
    IF keys = <<>> THEN s
    ELSE LET i == ParamIndex(s.params, Head(keys))
             s1 == IF i # 0
                   THEN [s EXCEPT !.c = match(s.c, activation, moment, keyword, s.params[i]),
                                  !.params[i].filled = TRUE]
                   ELSE s
         IN MatchMapping(s1, activation, moment, keyword, Tail(keys))

\* "Match keywords"
RECURSIVE MatchKeywords(_, _, _, _, _, _)
MatchKeywords(s, activation, moment, keywords, kwarg, k) ==
    IF k > Len(keywords) THEN s
    ELSE LET nm == s.c.heap[keywords[k]].arg
             i == IF ParamIndex(s.params, nm) # 0 THEN ParamIndex(s.params, nm)
                  ELSE IF kwarg # "" THEN ParamIndex(s.params, kwarg) ELSE 0
             s1 == IF i # 0
                   THEN [s EXCEPT !.c = match(s.c, activation, moment, keywords[k], s.params[i]),
                                  !.params[i].filled = TRUE]
                   ELSE IF nm = "**"
                   THEN MatchMapping(s, activation, moment, keywords[k],
                                     Keys(s.c.heap[keywords[k]].value))
                   ELSE s
         IN MatchKeywords(s1, activation, moment, keywords, kwarg, k + 1)

\* "Default parameters"
RECURSIVE MatchDefaults(_, _, _, _)
MatchDefaults(s, activation, moment, k) ==
    IF k > Len(s.params) THEN s
    ELSE LET param == s.params[k]
             s1 == IF ~param.filled /\ param.default # None
                   THEN [s EXCEPT !.c = match(s.c, activation, moment, param.default, param)]
                   ELSE s
         IN MatchDefaults(s1, activation, moment, k + 1)

\* _match_arguments(activation, arguments, default_dependencies): returns [c, raised]
_match_arguments(c, activation, arguments, default_dependencies) ==
    LET given(c1) == c1.activations[activation].dependencies[1]
        vararg(s1) ==
            IF arguments.vararg # ""
            THEN [s1 EXCEPT !.params[ParamIndex(s1.params, arguments.vararg)].filled = TRUE]
            ELSE s1
        rest(c1, s1) ==
            IF s1.raised THEN [c |-> s1.c, raised |-> TRUE]
            ELSE [c |-> MatchDefaults(MatchKeywords(vararg(s1), activation, c.now,
                                                    OfKind(c1, given(c1), "keyword"),
                                                    arguments.kwarg, 1),
                                      activation, c.now, 1).c,
                  raised |-> FALSE]
        timed(c1) ==
            rest(c1, MatchArgs([c |-> c1,
                                params |-> Parameters(arguments, default_dependencies.dependencies),
                                last_unfilled |-> 1, raised |-> FALSE],
                               activation, c.now, OfKind(c1, given(c1), "argument"), 1))
    IN timed(time(c))

\* function_def(activation)
function_def(c, activation) == Push(c, activation, DependencyAware)

\* _function_def(closure_activation, block_id, arguments): returns [c, defaults]
_function_def(c, closure_activation, block_id, arguments) ==
    [c |-> Pop(c, closure_activation), defaults |-> TopScope(c, closure_activation)]

\* dec(function_def) of _function_def: returns [c, result] (result: new_function_def)
FunctionDefDec(c, closure_activation, block_id, new_function_def) ==
    LET evaluated(r) ==
            [c |-> AddNew(r.c, closure_activation,
                          Dependency(closure_activation, r.id, new_function_def, r.value_id, "decorate")),
             result |-> new_function_def]
    IN evaluated(evaluate(time(Push(c, closure_activation, DependencyAware)), closure_activation,
                          block_id, new_function_def, c.now, NoDepa))

\* fault: a collect_function_def that binds the name and leaves the scope of the
\* decorators on the stack
CollectFunctionDefKeepsScope(c, activation, function) ==
    LET dependency_aware == TopScope(c, activation)
        dependency == c.heap[Last(dependency_aware.dependencies)]
    IN [c |-> [c EXCEPT !.activations[activation].context[NameOf(function)] = dependency.evaluation_id],
        result |-> function]

\* dec(function_def) of collect_function_def(activation): returns [c, result]
CollectFunctionDefDec(c, activation, function) ==
    LET dependency_aware == TopScope(c, activation)
        dependency == c.heap[Last(dependency_aware.dependencies)]
    IN [c |-> [Pop(c, activation) EXCEPT
                   !.activations[activation].context[NameOf(function)] = dependency.evaluation_id],
        result |-> function]

\* new_function_def(*args, **kwargs) up to the call of the body: returns [c, act, raised]
new_function_def(c, w) ==
    LET activation == c.last_activation
        matched(r) == [c |-> r.c, act |-> activation, raised |-> r.raised]
    IN matched(_match_arguments([c EXCEPT !.activations[activation].closure = w.closure_activation,
                                          !.activations[activation].code_block_id = w.block_id],
                                activation, w.arguments, w.defaults))

\* return_(activation)
return_(c, activation) == Push(c, activation, DependencyAware)

\* _return(activation, value): returns [c, result]
_return(c, activation, value) ==
    LET dependency_aware == TopScope(c, activation)
    IN [c |-> create_dependencies(Pop(c, activation), c.activations[activation].id, dependency_aware),
        result |-> value]

---------------------------------------------------------------------------
\* Assignments

\* assign_value(activation)
assign_value(c, activation) == Push(c, activation, DependencyAware)

\* _assign_value(activation, value, augvalue): returns [c, result]
_assign_value(c, activation, value) ==
    LET dependency == TopScope(c, activation)
        c1 == time(Pop(c, activation))
    IN [c |-> [c1 EXCEPT !.activations[activation].assignments =
                   Append(@, AssignRecord(c.now, value, dependency))],
        result |-> value]

\* pop_assign(activation): returns [c, assign]
pop_assign(c, activation) ==
    [c |-> [c EXCEPT !.activations[activation].assignments = Front(@)],
     assign |-> Last(c.activations[activation].assignments)]

\* the code component tuples of assignment targets: ((code, name, value), "single"),
\* ((subcomps, value), "multiple") and ((target,), "starred")
Single(code, nm, value) ==
    [type |-> "single", code |-> code, name |-> nm, value |-> value, subcomps |-> <<>>]
Multiple(subcomps, value) ==
    [type |-> "multiple", code |-> None, name |-> "", value |-> value, subcomps |-> subcomps]
Starred(target) ==
    [type |-> "starred", code |-> None, name |-> "", value |-> target.value, subcomps |-> <<target>>]

\* position of the first starred sub-target, 0 if none
StarPosition(subcomps) ==
    IF \E k \in 1..Len(subcomps) : subcomps[k].type = "starred"
    THEN CHOOSE k \in 1..Len(subcomps) :
            /\ subcomps[k].type = "starred"
            /\ \A j \in 1..(k - 1) : subcomps[j].type # "starred"
    ELSE 0

\* depa.clone(mode): a plain scope with copies of the dependencies, in the given mode;
\* returns [c, depa]
clone(c, depa, mode) ==
    [c |-> [c EXCEPT !.heap = @ \o [i \in 1..Len(depa.dependencies) |->
                                       [c.heap[depa.dependencies[i]] EXCEPT !.mode = mode]]],
     depa |-> [DependencyAware EXCEPT !.dependencies =
                  [i \in 1..Len(depa.dependencies) |-> Len(c.heap) + i]]]

\* get_compartment(meta, whole_id, addr): the part the latest compartment of the whole
\* has at the address, None if there is none
get_compartment(c, whole_id, addr) ==
    LET hits == {i \in 1..Len(c.compartments) :
                    c.compartments[i].whole_id = whole_id /\ c.compartments[i].name = addr}
    IN IF hits = {} THEN None
       ELSE c.compartments[CHOOSE i \in hits : \A j \in hits : j <= i].part_id

\* last_evaluation_by_value_id(meta, value_id): the latest evaluation of the value
last_evaluation_by_value_id(c, value_id) ==
    LET hits == {e \in 1..Len(c.evaluations) : c.evaluations[e].value_id = value_id}
    IN IF value_id = None \/ hits = {} THEN None
       ELSE CHOOSE e \in hits : \A j \in hits : j <= e

\* custom_dependency(index) of assign, for the "multiple" target described by m: the
\* list of scopes given (ldepa), whether dependencies are propagated, the dependency
\* they are propagated from (dep), the clone of the whole scope and the value assigned;
\* returns [c, depa, raised]
custom_dependency(c, m, index) ==
    LET fallback == [c |-> c, depa |-> m.clone_depa, raised |-> FALSE]
        wrapped(r) == [c |-> r.c, depa |-> [DependencyAware EXCEPT !.dependencies = <<r.ref>>],
                       raised |-> FALSE]
        made(aid, eid, part_id) ==
            IF part_id = None \/ eid = None THEN fallback
            ELSE IF PyIndex(m.assign_value, index) = 0 THEN [fallback EXCEPT !.raised = TRUE]
            ELSE wrapped(Alloc(c, Dependency(aid, eid, m.assign_value[PyIndex(m.assign_value, index)],
                                             part_id, "assign")))
        from_sub(new_dep) == made(new_dep.activation_id, new_dep.evaluation_id, new_dep.value_id)
        from_store(part_id, eid) ==
            made(IF eid = None THEN None ELSE c.evaluations[eid].activation_id, eid, part_id)
        stored(part_id) == from_store(part_id, last_evaluation_by_value_id(c, part_id))
        sub == c.heap[m.dep].sub_dependencies
    IN IF m.ldepa # <<>>
       THEN IF PyIndex(m.ldepa, index) = 0 THEN fallback
            ELSE [fallback EXCEPT !.depa = m.ldepa[PyIndex(m.ldepa, index)]]
       ELSE IF m.propagate
       THEN IF Len(sub) > index
            THEN IF PyIndex(sub, index) = 0 THEN [fallback EXCEPT !.raised = TRUE]
                 ELSE from_sub(c.heap[sub[PyIndex(sub, index)]])
            ELSE stored(get_compartment(c, c.heap[m.dep].value_id,
                                        "[" \o IndexObject(index) \o "]"))
       ELSE fallback

RECURSIVE assign(_, _, _, _)
RECURSIVE AssignLeft(_, _, _, _)
RECURSIVE AssignRight(_, _, _, _, _)
RECURSIVE StarDependencies(_, _, _, _)
RECURSIVE AssignStar(_, _, _, _)
RECURSIVE AssignMultiple(_, _, _, _)

\* assign, "multiple": the sub-targets from the first one up to the star; s holds the
\* collector, delta, rdelta and whether an exception was raised
AssignLeft(s, activation, m, k) ==
    IF k > Len(m.subcomps) \/ s.raised THEN s
    ELSE IF m.subcomps[k].type = "starred" THEN s
    ELSE LET added(r) == [s EXCEPT !.c = r.c, !.delta = @ + r.result,
                                   !.raised = r.raised \/ r.result = None]
             assigned(d) ==
                 IF d.raised THEN [s EXCEPT !.raised = TRUE]
                 ELSE added(assign(d.c, activation,
                                   AssignRecord(m.moment, m.subcomps[k].value, d.depa),
                                   m.subcomps[k]))
         IN AssignLeft(assigned(custom_dependency(s.c, m, k - 1)), activation, m, k + 1)

\* assign, "multiple": the sub-targets from the last one down to the star at position p
AssignRight(s, activation, m, p, k) ==
    IF k <= p \/ s.raised THEN s
    ELSE LET added(r) == [s EXCEPT !.c = r.c, !.rdelta = @ - r.result,
                                   !.raised = r.raised \/ r.result = None]
             assigned(d) ==
                 IF d.raised THEN [s EXCEPT !.raised = TRUE]
                 ELSE added(assign(d.c, activation,
                                   AssignRecord(m.moment, m.subcomps[k].value, d.depa),
                                   m.subcomps[k]))
         IN AssignRight(assigned(custom_dependency(s.c, m, Len(m.assign_value) + s.rdelta)),
                        activation, m, p, k - 1)

\* assign, "multiple": depas = [custom_dependency(index) for index in range(index, hi)];
\* a holds the collector, the list and whether an exception was raised
StarDependencies(a, m, index, hi) ==
    IF index >= hi \/ a.raised THEN a
    ELSE LET next(d) == [c |-> d.c, depas |-> Append(a.depas, d.depa), raised |-> d.raised]
         IN StarDependencies(next(custom_dependency(a.c, m, index)), m, index + 1, hi)

\* assign, "multiple": the starred sub-target
AssignStar(s, activation, m, star) ==
    LET new_value == ListObject("slice", PySlice(m.assign_value, s.delta, s.rdelta + 1))
        done(r) == [s EXCEPT !.c = r.c, !.raised = r.raised]
        logged(a) ==
            [a.c EXCEPT !.star = Append(@, [value |-> new_value, assign_value |-> m.assign_value,
                                            delta |-> s.delta, rdelta |-> s.rdelta,
                                            dependencies |-> JoinedDependencies(a.depas),
                                            count |-> Len(a.depas),
                                            clone_depa |-> m.clone_depa.dependencies])]
        starred(a) ==
            IF a.raised THEN [s EXCEPT !.c = a.c, !.raised = TRUE]
            ELSE done(assign(logged(a), activation, AssignList(m.moment, new_value, a.depas), star))
    IN IF s.raised THEN s
       ELSE starred(StarDependencies([c |-> s.c, depas |-> <<>>, raised |-> FALSE], m,
                                     s.delta, Len(m.assign_value) + s.rdelta + 1))

\* assign, "multiple"
AssignMultiple(c, activation, asg, target) ==
    LET depa == IF asg.islist THEN join(asg.ldepa) ELSE asg.depa
        p == StarPosition(target.subcomps)
        m(cl) ==
            [subcomps |-> target.subcomps, ldepa |-> asg.ldepa,
             propagate |-> /\ Len(depa.dependencies) = 1
                           /\ StartsWithAssign(c.heap[depa.dependencies[1]].mode)
                           /\ isiterable(target.value),
             dep |-> IF depa.dependencies = <<>> THEN None ELSE depa.dependencies[1],
             clone_depa |-> cl.depa, assign_value |-> Contents(asg.value), moment |-> asg.moment]
        returned(s) == [c |-> s.c, result |-> None, raised |-> s.raised]
        right(s, mm) ==
            IF p = 0 THEN s
            ELSE AssignStar(AssignRight(s, activation, mm, p, Len(target.subcomps)), activation, mm,
                            target.subcomps[p].subcomps[1])
        left(cl, mm) ==
            right(AssignLeft([c |-> cl.c, delta |-> 0, rdelta |-> -1, raised |-> FALSE],
                             activation, mm, 1), mm)
        cloned(cl) == returned(left(cl, m(cl)))
    IN cloned(clone(c, depa, "dependency"))

\* assign(activation, assign, code_component_tuple): returns [c, result, raised]; the
\* result is 1 for a "single" target and None for any other
assign(c, activation, asg, target) ==
    IF target.type = "single"
    THEN LET bound(r) ==
                 [c |-> IF target.name # ""
                        THEN [r.c EXCEPT !.activations[activation].context[target.name] = r.id]
                        ELSE r.c,
                  result |-> 1, raised |-> FALSE]
         IN bound(evaluate(c, activation, target.code, target.value, asg.moment,
                           IF asg.islist THEN join(asg.ldepa) ELSE asg.depa))
    ELSE IF target.type = "multiple" THEN AssignMultiple(c, activation, asg, target)
    ELSE [c |-> c, result |-> None, raised |-> FALSE]

---------------------------------------------------------------------------
\* The transformed code: where it may evaluate a sub-expression, and the calls it
\* makes to the expression hooks

\* the scope stack of an unpacking assignment is one deeper: the value, the tuple and
\* the item
ScopeBudget == IF Unpacking THEN MaxScopes + 1 ELSE MaxScopes

OpenKinds == {"script", "body", "operation", "container", "dict_key", "dict_value", "item",
              "func", "argument", "assign_value", "return", "function_def"}

\* the activation the code at the top of the stack passes to the hooks
Act == Top.act

CanOpen ==
    /\ stack # <<>>
    /\ Top.kind \in OpenKinds
    /\ Len(stack) < MaxStack
    /\ Depth(Fields, Act) < ScopeBudget

CanCapture ==
    /\ stack # <<>>
    /\ Top.kind \in OpenKinds
    /\ Len(evaluations) < MaxEvals

\* a before-hook: the scope is pushed and the after-callable is pending
Before(hook, c) ==
    /\ Commit(c)
    /\ stack' = Append(stack, Frame(hook, Act, Depth(Fields, Act)))
    /\ ev' = [NoEv EXCEPT !.hook = hook, !.act = Act, !.depth0 = Depth(Fields, Act),
                          !.depthb = Depth(Fields, Act), !.depth1 = Depth(c, Act)]
    /\ UNCHANGED clock

\* an after-hook called with `value`: r is what it returned
After(hook, value, r, rest) ==
    /\ Commit(r.c)
    /\ stack' = rest
    /\ ev' = [NoEv EXCEPT !.hook = hook, !.act = Act, !.value = value, !.result = r.result,
                          !.depth0 = Top.depth0, !.depthb = Depth(Fields, Act),
                          !.depth1 = Depth(r.c, Act)]
    /\ UNCHANGED clock

\* an object no dependency of the scope refers to
Fresh(c, depa, pool) ==
    CHOOSE o \in pool : \A i \in 1..Len(depa.dependencies) : c.heap[depa.dependencies[i]].value # o

Literal ==
    /\ Uses("literal")
    /\ CanCapture
    /\ \E value \in ExprValues :
          \E r \in {literal(Enter, Act, CodeOf("literal"), value, "dependency")} :
             /\ Commit(r.c)
             /\ ev' = [NoEv EXCEPT !.hook = "literal", !.act = Act, !.value = value,
                                   !.result = r.result, !.depth0 = Depth(Fields, Act),
                                   !.depthb = Depth(Fields, Act), !.depth1 = Depth(r.c, Act)]
    /\ UNCHANGED <<clock, stack>>

Name ==
    /\ Uses("name")
    /\ CanCapture
    /\ \E nm \in ReadNames, has_code \in BOOLEAN :
          \E value \in (IF nm \in Builtins THEN {Globals[nm]} ELSE ExprValues) :
             \E r \in {name(Enter, Act, has_code, CodeOf("name"), nm, value, "dependency")} :
                /\ Commit(r.c)
                /\ ev' = [NoEv EXCEPT !.hook = "name", !.act = Act, !.value = value,
                                      !.name = nm, !.has_code = has_code,
                                      !.result = r.result, !.depth0 = Depth(Fields, Act),
                                      !.depthb = Depth(Fields, Act), !.depth1 = Depth(r.c, Act)]
    /\ UNCHANGED <<clock, stack>>

Operation ==
    /\ Uses("operation")
    /\ CanOpen
    /\ Before("operation", operation(Enter, Act))

OperationAfter ==
    /\ stack # <<>> /\ Top.kind = "operation"
    /\ Len(evaluations) < MaxEvals
    /\ \E value \in ExprValues :
          After("_operation", value, _operation(Enter, Act, CodeOf("operation"), value, "dependency"),
                Front(stack))

Container ==
    /\ Uses("container")
    /\ CanOpen
    /\ Before("container", container(Enter, Act))

ContainerAfter ==
    /\ stack # <<>> /\ Top.kind = "container"
    /\ \E value \in ExprValues :
          After("_container", value, _container(Enter, Act, CodeOf("container"), value), Front(stack))

Dict ==
    /\ Uses("dict")
    /\ CanOpen
    /\ Before("dict", dict(Enter, Act))

DictKey ==
    /\ stack # <<>> /\ Top.kind = "dict"
    /\ Len(stack) < MaxStack
    /\ Depth(Fields, Act) < ScopeBudget
    /\ Before("dict_key", dict_key(Enter, Act))

\* after the key, the value expression of the pair is due
DictKeyAfter ==
    /\ stack # <<>> /\ Top.kind = "dict_key"
    /\ \E value \in ExprValues :
          After("_dict_key", value, _dict_key(Enter, Act, CodeOf("dict_key"), value),
                Append(Front(stack), [Top EXCEPT !.kind = "key_done"]))

DictValue ==
    /\ stack # <<>> /\ Top.kind = "key_done"
    /\ Commit(dict_value(Enter, Act))
    /\ stack' = Append(Front(stack), Frame("dict_value", Act, Depth(Fields, Act)))
    /\ ev' = [NoEv EXCEPT !.hook = "dict_value", !.act = Act, !.depth0 = Depth(Fields, Act),
                          !.depthb = Depth(Fields, Act), !.depth1 = Depth(Fields, Act) + 1]
    /\ UNCHANGED clock

DictValueAfter ==
    /\ stack # <<>> /\ Top.kind = "dict_value"
    /\ Len(evaluations) < MaxEvals
    /\ \E value \in ExprValues :
          After("_dict_value", value, _dict_value(Enter, Act, CodeOf("dict_value"), value),
                Front(stack))

DictAfter ==
    /\ stack # <<>> /\ Top.kind = "dict"
    /\ Len(evaluations) < MaxEvals
    /\ LET value == Fresh(Fields, TopScope(Fields, Act), NewDicts)
       IN After("_dict", value, _dict(Enter, Act, CodeOf("dict"), value, "collection"), Front(stack))

\* list, tuple and set all push a collection scope and return _list
List ==
    /\ Uses("list")
    /\ CanOpen
    /\ Before("list", list(Enter, Act))

Item ==
    /\ stack # <<>> /\ Top.kind = "list"
    /\ Len(stack) < MaxStack
    /\ Depth(Fields, Act) < ScopeBudget
    /\ Len(TopScope(Fields, Act).dependencies) < MaxItems
    /\ Before("item", item(Enter, Act))

\* the key the code passes for an item: None or an object, and for the items of the
\* tuple an unpacking assigns, the index of the item
ItemKeys ==
    IF Unpacking
    THEN {IndexObject(Len(activations[Act].dependencies[Depth(Fields, Act) - 1].items))}
    ELSE {"None", "one"}

ItemAfter ==
    /\ stack # <<>> /\ Top.kind = "item"
    /\ Len(evaluations) < MaxEvals
    /\ \E value \in ExprValues, key \in ItemKeys :
          After("_item", value, _item(Enter, Act, CodeOf("item"), value, key), Front(stack))

ListAfter ==
    /\ stack # <<>> /\ Top.kind = "list"
    /\ ~Unpacking
    /\ Len(evaluations) < MaxEvals
    /\ LET value == Fresh(Fields, TopScope(Fields, Act), NewLists)
       IN After("_list", value, _list(Enter, Act, CodeOf("list"), value, "collection"), Front(stack))

\* a tuple on the right-hand side of an assignment
Tuple ==
    /\ Uses("tuple")
    /\ CanOpen
    /\ Top.kind = "assign_value"
    /\ TopScope(Fields, Act).dependencies = <<>>
    /\ Before("list", list(Enter, Act))

\* the tuple is built from the items captured; the code passes the mode of the
\* Dependency; the value is then the one _assign_value receives
TupleAfter ==
    /\ stack # <<>> /\ Top.kind = "list"
    /\ Unpacking
    /\ Len(evaluations) < MaxEvals
    /\ \E mode \in {"collection", "assign"} :
          \E value \in {ListObject("literal",
                                    [i \in 1..Len(TopScope(Fields, Act).dependencies) |->
                                        heap[TopScope(Fields, Act).dependencies[i]].value])} :
             After("_list", value, _list(Enter, Act, CodeOf("list"), value, mode),
                   Append(SubSeq(stack, 1, Len(stack) - 2),
                          [stack[Len(stack) - 1] EXCEPT !.value = value]))

---------------------------------------------------------------------------
\* The calls the transformed code makes to the call, definition and assignment hooks

NextWrapper == CHOOSE w \in Wrappers : functions[w] = NoFunction /\ (w = "f2" => functions["f1"] # NoFunction)

Callables == Builtins \cup {w \in Wrappers : functions[w] # NoFunction}

\* the frames in which user code may catch an exception
Handlers(stk) == {h \in 1..Len(stk) : stk[h].kind \in {"script", "body", "returned"}}

\* an exception leaves the frames above frame h: every _call it passes records it,
\* closes its activation and lets it go on
RECURSIVE Unwind(_, _, _)
Unwind(c, stk, h) ==
    IF Len(stk) <= h THEN c
    ELSE LET f == Last(stk)
             c1 == IF f.kind \in {"running", "body", "returned"} /\ f.call # None
                   THEN CallRaised(c, f.call)
                   ELSE c
         IN Unwind(c1, Front(stk), h)

\* the activations of the _call frames the exception leaves, innermost first
RECURSIVE UnwoundCalls(_, _)
UnwoundCalls(stk, h) ==
    IF Len(stk) <= h THEN <<>>
    ELSE (IF Last(stk).kind \in {"running", "body", "returned"} /\ Last(stk).call # None
          THEN <<Last(stk).call>> ELSE <<>>) \o UnwoundCalls(Front(stk), h)

Func ==
    /\ Uses("func")
    /\ CanOpen
    /\ Before("func", func(Enter, Act))

FuncAfter ==
    /\ stack # <<>> /\ Top.kind = "func"
    /\ Len(evaluations) < MaxEvals
    /\ \E fn \in Callables :
          \E r \in {_func(Enter, Act, CodeOf("call"), CodeOf("func"), fn, "dependency")} :
             /\ Commit(r.c)
             /\ stack' = Append(Front(stack), [Frame("call", Act, Top.depth0) EXCEPT !.call = r.id])
             /\ ev' = [NoEv EXCEPT !.hook = "_func", !.act = Act, !.value = fn,
                                   !.depth0 = Top.depth0, !.depthb = Depth(Fields, Act),
                                   !.depth1 = Depth(r.c, Act)]
    /\ UNCHANGED clock

Argument ==
    /\ stack # <<>> /\ Top.kind = "call"
    /\ Len(stack) < MaxStack
    /\ Depth(Fields, Act) < ScopeBudget
    /\ Before("argument", argument(Enter, Act))

\* _argument makes an evaluation unless the scope holds exactly one dependency
ArgumentAfter ==
    /\ stack # <<>> /\ Top.kind = "argument"
    /\ Len(TopScope(Fields, Act).dependencies) # 1 => Len(evaluations) < MaxEvals
    /\ \E value \in ExprValues :
          After("_argument", value, _argument(Enter, Act, CodeOf("argument"), value, "", "", ""),
                Front(stack))

\* _call(*args, **kwargs) up to the point where activation.func runs
CallEnter ==
    /\ stack # <<>> /\ Top.kind = "call"
    /\ LET activation == last_activation
           fn == activations[activation].func
       IN /\ fn \in Wrappers => Len(evaluations) < MaxEvals + Len(Arguments.args)
          /\ \E w \in {IF fn \in Wrappers
                       THEN new_function_def(Enter, functions[fn])
                       ELSE [c |-> Enter, act |-> Act, raised |-> fn = "None"]} :
                /\ IF w.raised
                   THEN \E h \in Handlers(Front(stack)) :
                           /\ Commit(Unwind(CallRaised(w.c, activation), Front(stack), h))
                           /\ stack' = SubSeq(stack, 1, h)
                           /\ ev' = [NoEv EXCEPT !.hook = "_call", !.act = activation, !.value = fn,
                                                 !.raised = TRUE, !.started = Top.call,
                                                 !.calls = <<activation>> \o UnwoundCalls(Front(stack), h)]
                   ELSE /\ Commit(w.c)
                        /\ stack' = Append(Front(stack),
                                           [Frame(IF fn \in Wrappers THEN "body" ELSE "running", w.act,
                                                  IF fn \in Wrappers THEN Depth(w.c, w.act) ELSE Top.depth0)
                                               EXCEPT !.call = activation])
                        /\ ev' = [NoEv EXCEPT !.hook = "_call", !.act = activation, !.value = fn,
                                              !.started = Top.call]
    /\ UNCHANGED clock

\* activation.func returns and _call finishes
CallReturn ==
    /\ stack # <<>> /\ Top.kind \in {"running", "body", "returned"} /\ Top.call # None
    /\ \E result \in (IF Top.kind = "running" THEN ExprValues ELSE {Top.value}) :
          \E r \in {CallReturned(Enter, Top.call, result)} :
             /\ Commit(r.c)
             /\ ev' = [NoEv EXCEPT !.hook = "_call return", !.act = Top.call, !.value = result,
                                   !.result = r.result]
    /\ stack' = Front(stack)
    /\ UNCHANGED clock

\* a builtin under way calls a wrapper it was handed (a callback such as the key of
\* sorted): no call hook has run for it, and new_function_def runs up to the body
Callback ==
    /\ Uses("callback")
    /\ stack # <<>> /\ Top.kind = "running"
    /\ Len(stack) < MaxStack
    /\ \E fn \in {f \in Wrappers : functions[f] # NoFunction} :
          \E w \in {new_function_def(Enter, functions[fn])} :
             /\ ~w.raised
             /\ Commit(w.c)
             /\ stack' = Append(stack, Frame("body", w.act, Depth(w.c, w.act)))
             /\ ev' = [NoEv EXCEPT !.hook = "callback", !.act = w.act, !.value = fn]
    /\ UNCHANGED clock

\* the body of the callback returns to the builtin
CallbackReturn ==
    /\ stack # <<>> /\ Top.kind \in {"body", "returned"} /\ Top.call = None
    /\ stack' = Front(stack)
    /\ ev' = [NoEv EXCEPT !.hook = "callback return", !.act = Top.act]
    /\ UNCHANGED <<evaluations, activations, activations_store, dependencies, values,
                   compartments, code_components, exceptions, heap, shared_types,
                   global_evaluations, last_activation, functions, last_partial_save,
                   save_frequency, marks, emitted, flushes, trial_updates, clock, script,
                   actlog, metascript>>

\* the code at the top of the stack raises; user code catches in frame h
Raise ==
    /\ Uses("raise")
    /\ Len(stack) > 1
    /\ Top.kind \in (OpenKinds \cup {"dict", "list", "call", "running"}) \ {"script"}
    /\ \E h \in Handlers(Front(stack)) :
          /\ Commit(Unwind(Enter, stack, h))
          /\ stack' = SubSeq(stack, 1, h)
          /\ ev' = [NoEv EXCEPT !.hook = "raise", !.raised = TRUE, !.calls = UnwoundCalls(stack, h)]
    /\ UNCHANGED clock

Return ==
    /\ Uses("return")
    /\ CanOpen
    /\ Top.kind = "body"
    /\ Before("return", return_(Enter, Act))

\* after _return the function hands the value to its caller
ReturnAfter ==
    /\ stack # <<>> /\ Top.kind = "return"
    /\ \E value \in ExprValues :
          After("_return", value, _return(Enter, Act, value),
                Append(SubSeq(stack, 1, Len(stack) - 2),
                       [stack[Len(stack) - 1] EXCEPT !.kind = "returned", !.value = value]))

AssignValue ==
    /\ Uses("assign_value")
    /\ CanOpen
    /\ Top.kind \in {"script", "body"}
    /\ Before("assign_value", assign_value(Enter, Act))

\* after _assign_value the targets are visited
AssignValueAfter ==
    /\ stack # <<>> /\ Top.kind = "assign_value"
    /\ \E value \in (IF Top.value = "None" THEN ExprValues ELSE {Top.value}) :
          After("_assign_value", value, _assign_value(Enter, Act, value),
                Append(Front(stack), [Top EXCEPT !.kind = "targets", !.value = value]))

\* the names a single target may bind
TargetNames ==
    CASE script = "names" -> {"x", "y"}
      [] script = "shadowing" -> {"len"}
      [] OTHER -> {"x"}

\* assign(activation, pop_assign(activation), target) for a target that is one name
Assign ==
    /\ stack # <<>> /\ Top.kind = "targets"
    /\ Len(evaluations) < MaxEvals
    /\ \E nm \in TargetNames :
          \E p \in {pop_assign(Enter, Act)} :
             /\ Commit(assign(p.c, Act, p.assign, Single(CodeOf("target"), nm, Top.value)).c)
             /\ ev' = [NoEv EXCEPT !.hook = "assign", !.act = Act, !.value = Top.value,
                                   !.name = nm]
    /\ stack' = Front(stack)
    /\ UNCHANGED clock

\* the targets of an unpacking assignment, with the values Python binds to them
Patterns ==
    IF script = "nesting" THEN {"(a, b), c"}
    ELSE {"a, b", "a, *b", "*a, b", "a, *b, c", "a, *[b, *c]"}

Fits(pattern, s, n) ==
    CASE pattern = "a, b" -> n = 2
      [] pattern = "(a, b), c" -> n = 2 /\ s[1] = "pair"
      [] pattern = "a, *b" -> n >= 1
      [] pattern = "*a, b" -> n >= 1
      [] pattern = "a, *b, c" -> n >= 2
      [] OTHER -> n >= 2

Targets(pattern, value) ==
    LET s == Contents(value)
        n == Len(s)
        T(nm, v) == Single(CodeOf("target"), nm, v)
        rest(from, to) == ListObject("starred", SubSeq(s, from, to))
    IN CASE pattern = "a, b" -> Multiple(<<T("a", s[1]), T("b", s[2])>>, value)
         [] pattern = "(a, b), c" ->
               Multiple(<<Multiple(<<T("a", Contents(s[1])[1]), T("b", Contents(s[1])[2])>>, s[1]),
                          T("c", s[2])>>, value)
         [] pattern = "a, *b" -> Multiple(<<T("a", s[1]), Starred(T("b", rest(2, n)))>>, value)
         [] pattern = "*a, b" -> Multiple(<<Starred(T("a", rest(1, n - 1))), T("b", s[n])>>, value)
         [] pattern = "a, *b, c" ->
               Multiple(<<T("a", s[1]), Starred(T("b", rest(2, n - 1))), T("c", s[n])>>, value)
         [] OTHER ->
               Multiple(<<T("a", s[1]),
                          Starred(Multiple(<<T("b", s[2]), Starred(T("c", rest(3, n)))>>,
                                           rest(2, n)))>>, value)

\* the evaluations of the items of the collection the Assign depends on
ItemEvaluations(c, asg) ==
    IF Len(asg.depa.dependencies) # 1 THEN <<>>
    ELSE [i \in 1..Len(c.heap[asg.depa.dependencies[1]].sub_dependencies) |->
             c.heap[c.heap[asg.depa.dependencies[1]].sub_dependencies[i]].evaluation_id]

\* assign(activation, pop_assign(activation), targets) for targets that unpack the value
Unpack ==
    /\ Uses("unpack")
    /\ stack # <<>> /\ Top.kind = "targets"
    /\ Top.value \in BuiltLists
    /\ \E pattern \in {q \in Patterns : Fits(q, Contents(Top.value), Len(Contents(Top.value)))} :
          \E p \in {pop_assign(Enter, Act)} :
             \E r \in {assign(p.c, Act, p.assign, Targets(pattern, Top.value))} :
                /\ Commit(r.c)
                /\ ev' = [NoEv EXCEPT !.hook = "assign", !.act = Act, !.value = Top.value,
                                      !.raised = r.raised, !.pattern = pattern,
                                      !.star = r.c.star, !.items = ItemEvaluations(p.c, p.assign)]
    /\ stack' = Front(stack)
    /\ UNCHANGED clock

FunctionDef ==
    /\ Uses("function_def")
    /\ CanOpen
    /\ Top.kind \in {"script", "body"}
    /\ \E w \in Wrappers : functions[w] = NoFunction
    /\ Before("function_def", function_def(Enter, Act))

\* _function_def returns the decorator; the function object is built next
FunctionDefAfter ==
    /\ stack # <<>> /\ Top.kind = "function_def"
    /\ LET r == _function_def(Enter, Act, CodeOf("function_def"), Arguments)
       IN After("_function_def", "None", [c |-> r.c, result |-> "None"],
                Append(Front(stack), [Top EXCEPT !.kind = "decorate", !.defaults = r.defaults]))

\* the decorator of _function_def is applied to the function
FunctionDefDecorate ==
    /\ stack # <<>> /\ Top.kind = "decorate"
    /\ Len(evaluations) < MaxEvals
    /\ \E w \in {NextWrapper} :
          \E r \in {FunctionDefDec(Enter, Act, CodeOf("function_def"), w)} :
             /\ Commit([r.c EXCEPT !.functions[w] =
                           [closure_activation |-> Act, block_id |-> CodeOf("function_def"),
                            arguments |-> Arguments, defaults |-> Top.defaults]])
             /\ stack' = Append(Front(stack), [Top EXCEPT !.kind = "collect", !.value = w])
             /\ ev' = [NoEv EXCEPT !.hook = "_function_def.dec", !.act = Act, !.value = w,
                                   !.result = r.result, !.depth0 = Top.depth0,
                                   !.depthb = Depth(Fields, Act), !.depth1 = Depth(r.c, Act)]
    /\ UNCHANGED clock

\* the decorator of collect_function_def is applied to the wrapper
CollectFunctionDef ==
    /\ stack # <<>> /\ Top.kind = "collect"
    /\ After("collect_function_def.dec", Top.value, CollectFunctionDefDec(Enter, Act, Top.value),
             Front(stack))

---------------------------------------------------------------------------
Init ==
    /\ evaluations = <<>>
    /\ activations = (NowId :> [Activation(NowId, None, "<now>", None, None) EXCEPT !.closure = None])
    /\ activations_store = <<>>
    /\ dependencies = <<>>
    /\ values = <<>>
    /\ compartments = <<>>
    /\ code_components = <<>>
    /\ exceptions = <<>>
    /\ heap = <<>>
    /\ shared_types = [t \in TypeObjects |-> None]
    /\ global_evaluations = [n \in Names |-> None]
    /\ last_activation = NowId
    /\ functions = [w \in Wrappers |-> NoFunction]
    /\ last_partial_save = 1
    /\ script \in Scripts
    /\ save_frequency = (IF Uses("tick") THEN 1 ELSE 0)
    /\ marks = [k \in {StoreKinds[i] : i \in 1..Len(StoreKinds)} |-> 0]
    /\ emitted = [k \in {StoreKinds[i] : i \in 1..Len(StoreKinds)} |-> <<>>]
    /\ flushes = <<>>
    /\ trial_updates = <<>>
    /\ clock = 1
    /\ stack = <<>>
    /\ actlog = <<>>
    /\ metascript = Alive
    /\ ev = NoEv

Next ==
    \/ Tick
    \/ StartScript
    \/ CloseScript
    \/ FinalStore
    \/ DropMetascript
    \/ Literal
    \/ Name
    \/ Operation
    \/ OperationAfter
    \/ Container
    \/ ContainerAfter
    \/ Dict
    \/ DictKey
    \/ DictKeyAfter
    \/ DictValue
    \/ DictValueAfter
    \/ DictAfter
    \/ List
    \/ Item
    \/ ItemAfter
    \/ ListAfter
    \/ Func
    \/ FuncAfter
    \/ Argument
    \/ ArgumentAfter
    \/ CallEnter
    \/ CallReturn
    \/ Callback
    \/ CallbackReturn
    \/ Raise
    \/ Return
    \/ ReturnAfter
    \/ AssignValue
    \/ AssignValueAfter
    \/ Assign
    \/ Tuple
    \/ TupleAfter
    \/ Unpack
    \/ FunctionDef
    \/ FunctionDefAfter
    \/ FunctionDefDecorate
    \/ CollectFunctionDef

Spec == Init /\ [][Next]_vars

---------------------------------------------------------------------------
\* Properties

\* the activations started and not closed by the first n calls of the log
OpenAfter(log, n) ==
    {a \in {log[i][2] : i \in 1..n} :
        /\ \E i \in 1..n : log[i] = <<"start", a>>
        /\ ~\E i \in 1..n : log[i] = <<"close", a>>}

\* position of the start of activation a in the log
StartOf(log, a) == CHOOSE i \in 1..Len(log) : log[i] = <<"start", a>>

\* C1: close_activation is called exactly once for every start_activation, and the
\* activations are closed in LIFO order: every close closes the most recently started
\* activation that is still open, and when the script has been closed no activation
\* is left open.
C1_CloseOncePerStartLifo ==
    /\ \A n \in 1..Len(actlog) :
          actlog[n][1] = "close" =>
             /\ actlog[n][2] \in OpenAfter(actlog, n - 1)
             /\ \A b \in OpenAfter(actlog, n - 1) : StartOf(actlog, b) <= StartOf(actlog, actlog[n][2])
    /\ (stack = <<>> /\ actlog # <<>>) => OpenAfter(actlog, Len(actlog)) = {}

\* the after-hooks that pop exactly one scope, those that pop none, and all of them
PopOne == {"_operation", "_dict", "_list", "_item", "_func", "_argument", "_assign_value",
           "_function_def", "collect_function_def.dec", "_return"}
PopNone == {"_container", "_dict_key"}
AfterHooks == PopOne \cup PopNone \cup {"_dict_value"}

\* C2 (as stated): at the return of every after-hook the scope stack of the activation
\* the hook was given is as deep as it was immediately before the corresponding
\* before-hook pushed its scope.
C2_ScopeDepthConserved == ev.hook \in AfterHooks => ev.depth1 = ev.depth0

\* C2 (amended): _operation, _dict, _list, _item, _func, _argument, _assign_value,
\* _function_def, the decorator of collect_function_def and _return pop exactly one
\* scope, and so return at the depth their before-hook found whenever the hooks called
\* in between gave back the depth they found; _container and _dict_key pop nothing;
\* _dict_value pops two scopes, its own and the one _dict_key left.
C2_AfterHooksPopTheirScope ==
    /\ ev.hook \in PopOne =>
          /\ ev.depth1 = ev.depthb - 1
          /\ ev.depthb = ev.depth0 + 1 => ev.depth1 = ev.depth0
    /\ ev.hook \in PopNone => ev.depth1 = ev.depthb /\ ev.depth1 > ev.depth0
    /\ ev.hook = "_dict_value" => ev.depth1 = ev.depthb - 2

\* C2 witness: _dict_value has returned one scope below the depth dict_value found
C2_DictValuePoppedTwo == ev.hook = "_dict_value" /\ ev.depth1 = ev.depth0 - 1 /\ ev.depth1 >= 2

\* C3: every Dependency record has both endpoints in the evaluations store, and had
\* them there when it was added.
C3_DependencyEndpointsExist ==
    \A i \in 1..Len(dependencies) :
       /\ dependencies[i].known <= Len(evaluations)
       /\ dependencies[i].dependent_id \in 1..dependencies[i].known
       /\ dependencies[i].dependency_id \in 1..dependencies[i].known

\* C3 witness: an operation depends on two captured operands
C3_TwoDependencies ==
    \E i, j \in 1..Len(dependencies) :
       /\ i # j
       /\ dependencies[i].dependent_id = dependencies[j].dependent_id
       /\ dependencies[i].dependency_id # dependencies[j].dependency_id

\* following type_id from the value for at most k steps reaches a self-typed value
RECURSIVE ReachesRoot(_, _, _)
ReachesRoot(vals, id, k) ==
    IF vals[id].type_id = id THEN TRUE
    ELSE IF k = 0 THEN FALSE
    ELSE ReachesRoot(vals, vals[id].type_id, k - 1)

\* C4: every Value has a type_id that names a Value, never the placeholder -1, and
\* following type_id reaches a self-typed root in a bounded number of steps.
C4_TypeChainReachesRoot ==
    /\ \A id \in 1..Len(values) : values[id].type_id \in 1..Len(values)
    /\ \A id \in 1..Len(values) : ReachesRoot(values, id, Len(values))

\* C4 witness: a value two steps away from the root (an int, whose type is int, whose
\* type is type)
C4_ChainOfTwo ==
    \E id \in 1..Len(values) :
       /\ values[id].type_id # id
       /\ values[values[id].type_id].type_id # values[id].type_id
       /\ values[values[values[id].type_id].type_id].type_id = values[values[id].type_id].type_id

\* Activation.caller: the activation of the activation's own evaluation
Caller(a) == evaluations[a].activation_id

\* following the callers from the activation for at most k steps reaches <now>
RECURSIVE ReachesNow(_, _)
ReachesNow(a, k) ==
    IF a = NowId THEN TRUE
    ELSE IF k = 0 \/ a \notin DOMAIN activations THEN FALSE
    ELSE ReachesNow(Caller(a), k - 1)

\* C5: the callers form a tree rooted at <now>: every activation other than <now> has a
\* caller, following the callers reaches <now> (no cycle), and the activation the call
\* hook starts from activation A has A as its caller.
C5_ActivationTree ==
    /\ \A i \in 1..Len(activations_store) :
          /\ activations_store[i] # NowId
          /\ Caller(activations_store[i]) \in DOMAIN activations
          /\ ReachesNow(activations_store[i], Len(activations_store))
    /\ ev.hook = "_func" => Caller(last_activation) = ev.act
    /\ ev.hook = "start_script" => Caller(last_activation) = NowId

\* C5 witness: an activation started by the call hook inside a function body
C5_NestedCall ==
    /\ ev.hook = "_func"
    /\ Caller(last_activation) # NowId
    /\ Caller(Caller(last_activation)) # NowId

\* what close_activation(a, value_id) made of the collector: d is the result
CloseEffect(d, a, value_id) ==
    /\ d.evaluations = [evaluations EXCEPT ![a].moment = clock, ![a].value_id = value_id]
    /\ d.last_activation =
          IF \E i \in 1..Len(activations_store) : activations_store[i] = Caller(a)
          THEN Caller(a) ELSE NowId
    /\ d.activations = activations
    /\ d.activations_store = activations_store
    /\ d.dependencies = dependencies
    /\ d.values = values
    /\ d.compartments = compartments
    /\ d.code_components = code_components
    /\ d.exceptions = exceptions
    /\ d.heap = heap
    /\ d.shared_types = shared_types
    /\ d.global_evaluations = global_evaluations
    /\ d.functions = functions

\* the activations the script may close next: the one _call works on and the script's
Closable == {a \in {last_activation} \cup {stack[i].act : i \in 1..Len(stack)} : a # NowId}

\* C6: in every state the collector reaches, close_activation(a, value_id) sets the
\* moment of a's evaluation to the current time and its value_id to the given id, sets
\* last_activation to the stored activation a's evaluation names, or to <now> when the
\* store holds none, and changes no other record.
C6_CloseActivationEffect ==
    \A a \in Closable :
       \A value_id \in {None, Len(values)} :
          CloseEffect(close_activation(Enter, a, value_id), a, value_id)

\* C6 witness: a call has been closed and last_activation is back at its caller, while
\* the script has been closed to <now>
C6_ClosedBackToCaller ==
    \E n \in 1..Len(actlog) :
       /\ actlog[n][1] = "close"
       /\ Caller(actlog[n][2]) # NowId
       /\ evaluations[actlog[n][2]].moment # None
       /\ evaluations[actlog[n][2]].value_id # None
       /\ last_activation = NowId

\* a second partial store right after the first hands nothing over
SecondStoreDrainsNothing(c1) == store(c1, TRUE, "running").emitted = c1.emitted

\* C7: no record is handed to the persistence layer twice, whatever partial and final
\* stores a run makes, and in every state a partial store followed at once by another
\* one hands over nothing the second time.
C7_PartialFlushIdempotent ==
    /\ \A k \in DOMAIN emitted :
          \A i, j \in 1..Len(emitted[k]) : i # j => emitted[k][i] # emitted[k][j]
    /\ SecondStoreDrainsNothing(store(Enter, TRUE, "running"))

\* C7 witness: a partial store drained records and a later store drained more
C7_TwoDrainingStores ==
    \E i, j \in 1..Len(flushes) :
       /\ i < j
       /\ flushes[i].partial
       /\ flushes[i].drained > 0
       /\ flushes[j].drained > 0

\* C8: a partial store is made only at the entry of a hook: never after the hook has
\* changed a store or a scope stack, and never between the creation of an activation's
\* evaluation and that of the activation.
C8_NoFlushMidHook ==
    \A i \in 1..Len(flushes) :
       flushes[i].partial => ~flushes[i].mid /\ ~flushes[i].orphan

\* C9: partial stores are made only while the trial is running, they issue no trial
\* update, and every final store issues exactly one.
C9_PartialFlushOnlyWhileRunning ==
    /\ \A i \in 1..Len(flushes) : flushes[i].partial => flushes[i].trial = "running"
    /\ Len(trial_updates) = Cardinality({i \in 1..Len(flushes) : ~flushes[i].partial})

\* the after-hooks that hand a value back to the script
Transparent == {"literal", "name", "_operation", "_container", "_dict", "_dict_key", "_dict_value",
                "_list", "_item", "_assign_value", "_argument", "_return"}

ArgumentsOf(a) ==
    {r \in 1..Len(heap) :
        /\ StartsWithArgument(heap[r].mode)
        /\ \E k \in 1..Len(activations[a].dependencies) :
              \E i \in 1..Len(activations[a].dependencies[k].dependencies) :
                 activations[a].dependencies[k].dependencies[i] = r}

\* C12: when a call returns, the call's evaluation has a `dependency` edge to every
\* dependency with an argument mode collected for the call if and only if the
\* activation's code_block_id is -1.
C12_ArgumentEdgesIffNoDefinition ==
    ev.hook = "_call return" =>
       \A r \in ArgumentsOf(ev.act) :
          (activations[ev.act].code_block_id = -1) <=>
             \E d \in 1..Len(dependencies) :
                /\ dependencies[d].dependent_id = ev.act
                /\ dependencies[d].dependency_id = heap[r].evaluation_id
                /\ dependencies[d].mode = "dependency"

\* the dependency records of the evaluation, as (dependency, mode) pairs
RecordsOf(e) ==
    {<<dependencies[d].dependency_id, dependencies[d].mode>> :
        d \in {i \in 1..Len(dependencies) : dependencies[i].dependent_id = e}}

\* C13: the unpacking `a, b = x, y` of a two-item collection literal produces exactly
\* two Dependencies, a <- x and b <- y, both with mode assign, and no edge of any mode
\* from a to y or from b to x.
C13_TupleUnpackingAssignsPairwise ==
    (ev.hook = "assign" /\ ev.pattern = "a, b") =>
       /\ Len(ev.items) = 2
       /\ RecordsOf(activations[ev.act].context["a"]) = {<<ev.items[1], "assign">>}
       /\ RecordsOf(activations[ev.act].context["b"]) = {<<ev.items[2], "assign">>}

\* C14: in an assignment with one starred sub-target, the starred target is bound to
\* value[delta : len(value) + rdelta + 1], where delta is the width consumed left of
\* the star and rdelta the negative offset left by the targets right of it, and to the
\* dependencies of exactly the indexes of that range, wherever the star stands.
C14_StarredTargetBoundToSlice ==
    (ev.hook = "assign" /\ ~ev.raised) =>
       \A n \in 1..Len(ev.star) :
          LET e == ev.star[n]
              hi == Len(e.assign_value) + e.rdelta + 1
          IN /\ Contents(e.value) = PySlice(e.assign_value, e.delta, hi)
             /\ e.count = (IF hi > e.delta THEN hi - e.delta ELSE 0)

\* what a hook has appended to a sequence
Appended(before, after) == SubSeq(after, Len(before) + 1, Len(after))

\* C15: the name hook, given a code component id, adds exactly one Evaluation of the
\* activation at the capture site and one Dependency on it to the top scope; when the
\* lookup resolves the name it adds one `assignment` record from the new evaluation to
\* the evaluation looked up and the new evaluation takes that evaluation's value id;
\* when it does not, the new evaluation takes a Value added for it and no record is
\* added.
C15_NameCapturesOneEvaluation ==
    [][(ev'.hook = "name" /\ ev'.has_code) =>
          LET act == ev'.act
              old_eval == lookup(Fields, act, ev'.name).id
              new == Len(evaluations')
              added == Appended(dependencies, dependencies')
              scoped == Appended(TopScope(Fields, act).dependencies,
                                 Last(activations'[act].dependencies).dependencies)
          IN /\ {e \in Len(evaluations) + 1..new : evaluations'[e].activation_id = act} = {new}
             /\ Len(scoped) = 1
             /\ heap'[scoped[1]].evaluation_id = new
             /\ heap'[scoped[1]].value_id = evaluations'[new].value_id
             /\ IF old_eval # None
                THEN /\ Len(added) = 1
                     /\ added[1].dependent_id = new
                     /\ added[1].dependency_id = old_eval
                     /\ added[1].mode = "assignment"
                     /\ evaluations'[new].value_id = evaluations'[old_eval].value_id
                ELSE /\ added = <<>>
                     /\ evaluations'[new].value_id \in Len(values) + 1..Len(values')
                     /\ values'[evaluations'[new].value_id].value = Repr(ev'.value)]_vars

\* C15 witness: a name bound by an assignment has been read, and the evaluation of the
\* read is linked to the evaluation of the write
C15_BoundNameRead ==
    /\ ev.hook = "name" /\ ev.has_code /\ ev.name = "x"
    /\ activations[ev.act].context["x"] # None
    /\ \E d \in 1..Len(dependencies) :
          /\ dependencies[d].mode = "assignment"
          /\ dependencies[d].dependent_id = Len(evaluations)
          /\ dependencies[d].dependency_id = activations[ev.act].context["x"]

\* the objects add_value is given twice: an instance, a list, a type and the
\* type-of-types root
Interned == {"one", "lst1", "int", "type"}

\* add_value(value) called twice in a row on the same object
AddedTwice(c, value) ==
    LET second(first) == [first |-> first, second |-> add_value(first.c, value)]
    IN second(add_value(c, value))

\* C16: add_value called twice on the same object (an instance, a type, or `type`)
\* yields the same Value id both times and adds no second Value record: after the
\* literal hook has added the Value of an object, add_value on that object returns the
\* id the hook got, and so do two calls in a row on any object.
C16_OneValuePerObject ==
    ev.hook = "literal" =>
       /\ \E r \in {add_value(Fields, ev.value)} :
             /\ r.id = evaluations[Len(evaluations)].value_id
             /\ Len(r.c.values) = Len(values)
       /\ \A value \in Interned :
             \E t \in {AddedTwice(Fields, value)} :
                /\ t.second.id = t.first.id
                /\ Len(t.second.c.values) = Len(t.first.c.values)

\* C16 as the code has it: every add_value call adds a Value record for the object
\* it is given, with a new id, also when the object is a type or `type` itself (a
\* second self-typed root, which takes the place of the first in shared_types); only
\* the Value found through type(value) is shared: the second call adds exactly one
\* record, and for any object but `type` its type_id is the type_id of the first.
C16_AddValueSharesOnlyTheType ==
    \A value \in Interned :
       \E t \in {AddedTwice(Fields, value)} :
          /\ t.first.id \in Len(values) + 1..Len(t.first.c.values)
          /\ t.second.id = Len(t.first.c.values) + 1
          /\ Len(t.second.c.values) = Len(t.first.c.values) + 1
          /\ t.second.c.values[t.second.id].value = Repr(value)
          /\ t.second.c.values[t.second.id].type_id =
                IF value = "type" THEN t.second.id
                ELSE t.second.c.values[t.first.id].type_id
          /\ value = "type" => t.second.c.shared_types["type"] = t.second.id
          /\ value # "type" => t.second.c.shared_types = t.first.c.shared_types

\* C16 witness: the hooks have captured the same object twice, and the store holds two
\* Value records of it that share the Value of its type
C16_SameObjectCapturedTwice ==
    /\ ev.hook = "literal" /\ ev.value = "one"
    /\ \E i, j \in 1..Len(values) :
          /\ i < j
          /\ values[i].value = Repr("one") /\ values[j].value = Repr("one")
          /\ values[i].type_id = values[j].type_id
          /\ values[values[i].type_id].value = Repr("int")

\* the modes the specification lists for a Dependency record
ListedModes == {"assign", "assignment", "argument", "dependency", "dependency-bind", "assign-bind",
                "item", "func", "collection", "decorate"}

\* C17 as claimed: every mode stored on a Dependency record of the store is one of the
\* listed modes, whatever hooks ran, the bind rule included.
C17_StoredModesListed ==
    \A d \in 1..Len(dependencies) : dependencies[d].mode \in ListedModes

\* C17 as the code has it: a stored mode is a listed mode or one of the other modes
\* with the suffix the bind rule appends
StoredModes == ListedModes \cup {mode \o "-bind" : mode \in BaseModes}

C17_StoredModesListedOrBound ==
    \A d \in 1..Len(dependencies) : dependencies[d].mode \in StoredModes

\* C17 witness: the bind rule has been applied to a dependency whose mode is neither
\* dependency nor assign, and the record of it is in the store
C17_BoundCollectionStored ==
    \E d \in 1..Len(dependencies) :
       /\ dependencies[d].mode \in {"collection-bind", "item-bind", "func-bind", "argument-bind",
                                    "decorate-bind"}
       /\ evaluations[dependencies[d].dependent_id].value_id =
             evaluations[dependencies[d].dependency_id].value_id

\* C18: once the metascript has been dropped, a hook call is a no-op: it adds no
\* record to any store, makes no flush and raises nothing (stated for the calls of the
\* literal hook that follow the drop).
C18_HooksNoOpAfterDrop ==
    (~metascript.alive /\ ev.hook = "literal") =>
       /\ Records(Fields) = metascript.records
       /\ Len(flushes) = metascript.flushes
       /\ ~ev.raised

\* the partial flushes made after the start of the activation, up to its close
FlushesDuring(a) ==
    {i \in 1..Len(flushes) :
        /\ flushes[i].partial
        /\ flushes[i].at > activations[a].start
        /\ flushes[i].at <= evaluations[a].moment}

\* C19: when a called function has run for at least two save periods without calling a
\* hook (a period ends once the clock is more than save_frequency past the last
\* save), at least two partial flushes were made during the call, and flushing again
\* after a flush drains no record.
C19_TwoFlushesDuringLongCall ==
    (/\ ev.hook = "_call return"
     /\ save_frequency # 0
     /\ evaluations[ev.act].moment - activations[ev.act].start >= 2 * (save_frequency + 1)) =>
       /\ Cardinality(FlushesDuring(ev.act)) >= 2
       /\ SecondStoreDrainsNothing(store(Enter, TRUE, "running"))

\* the script `x = 1; y = x` has run at top level: the evaluations are those of the
\* script, the literal, the target x, the read of x and the target y, in this order;
\* the target x was bound to the value of the literal, the read found x bound, and
\* the target y was bound to the value read
ScenarioS1 ==
    /\ script = "names"
    /\ ev.hook = "assign" /\ ev.name = "y"
    /\ [e \in 1..Len(evaluations) |-> evaluations[e].code_component_id] =
          <<CodeOf("script"), CodeOf("literal"), CodeOf("target"), CodeOf("name"), CodeOf("target")>>
    /\ activations[ev.act].context["x"] = 3
    /\ activations[ev.act].context["y"] = 5
    /\ values[evaluations[2].value_id].value = Repr("one")
    /\ evaluations[3].value_id = evaluations[2].value_id
    /\ evaluations[4].value_id = evaluations[3].value_id
    /\ evaluations[5].value_id = evaluations[4].value_id

\* the dependency records of the store, as (dependent, dependency, mode) triples
DependencyRecords ==
    {<<dependencies[d].dependent_id, dependencies[d].dependency_id, dependencies[d].mode>> :
        d \in 1..Len(dependencies)}

\* C20 as claimed: `x = 1; y = x` yields, besides the evaluation of the script
\* itself, exactly three evaluations (the literal, the read of x, the write of y),
\* exactly the dependencies read of x -> literal (assignment) and write of y -> read
\* of x (assign), and no compartment.
C20_ScenarioThreeEvaluations ==
    ScenarioS1 =>
       /\ Len(evaluations) = 1 + 3
       /\ \E lit, read, write \in 2..Len(evaluations) :
             /\ evaluations[lit].code_component_id = CodeOf("literal")
             /\ evaluations[read].code_component_id = CodeOf("name")
             /\ write = activations[ev.act].context["y"]
             /\ DependencyRecords = {<<read, lit, "assignment">>, <<write, read, "assign">>}
       /\ compartments = <<>>

\* C20 as the code has it: the write of x is an evaluation too (2: literal, 3: write
\* of x, 4: read of x, 5: write of y); the dependencies are exactly write of x ->
\* literal (assign), read of x -> write of x (assignment) and write of y -> read of x
\* (assign), one record each; there is no compartment.
C20_ScenarioFourEvaluations ==
    ScenarioS1 =>
       /\ Len(evaluations) = 1 + 4
       /\ DependencyRecords = {<<3, 2, "assign">>, <<4, 3, "assignment">>, <<5, 4, "assign">>}
       /\ Len(dependencies) = 3
       /\ compartments = <<>>

\* C20 witness: the script `x = 1; y = x` has run
C20_ScenarioRun == ScenarioS1 /\ Len(dependencies) > 0

---------------------------------------------------------------------------
\* Scope stacks of open activations

\* the activations start_activation has started and close_activation has not closed
OpenActivations == OpenAfter(actlog, Len(actlog)) \ {NowId}

\* the before-hooks whose after-hook has not run yet
BeforeHooks == {"operation", "container", "dict_key", "dict_value", "item", "func",
                "argument", "assign_value", "return", "function_def"}

\* the pending after-callables of the sub-expressions of activation a
InFlight(a) == {i \in 1..Len(stack) : stack[i].act = a /\ stack[i].kind \in BeforeHooks}

\* C21 (as stated): the scope stack of an open activation is empty if and only if no
\* sub-expression of the activation is in flight.
C21_ScopeStackEmptyIffIdle ==
    \A a \in OpenActivations : (Depth(Fields, a) = 0) <=> (InFlight(a) = {})

\* C21 (amended): the scope stack of an open activation is never empty, it keeps the
\* scope the activation started with; while a sub-expression of the activation is in
\* flight the stack holds at least one scope more.
C21_ScopeStackKeepsInitialScope ==
    \A a \in OpenActivations :
       /\ Depth(Fields, a) >= 1
       /\ InFlight(a) # {} => Depth(Fields, a) >= 2

\* C21 witness: an open activation with nothing in flight and one with an operand
\* in flight
C21_IdleAndInFlight ==
    /\ \E a \in OpenActivations : InFlight(a) = {} /\ Depth(Fields, a) = 2
    /\ \E a \in OpenActivations : InFlight(a) # {} /\ Depth(Fields, a) = 2

---------------------------------------------------------------------------
\* Compartments and their containers

\* the evaluations that gave the value its id, in the order of their creation
EvaluationsOf(value_id) ==
    {e \in 1..Len(evaluations) : evaluations[e].value_id = value_id}

\* the evaluation that originated the value: the first one created with its id
Originating(value_id) ==
    CHOOSE e \in EvaluationsOf(value_id) : \A f \in EvaluationsOf(value_id) : e <= f

\* C22: the moment of every compartment is greater than or equal to the moment of the
\* evaluation that originated the value of its container.
C22_CompartmentNotBeforeContainer ==
    \A i \in 1..Len(compartments) :
       EvaluationsOf(compartments[i].whole_id) # {} =>
          compartments[i].moment >= evaluations[Originating(compartments[i].whole_id)].moment

---------------------------------------------------------------------------
\* Nested calls

\* C23: when _call runs it works on the activation the matching call hook started,
\* also when other calls were started and closed while the arguments were evaluated.
C23_CallWorksOnStartedActivation ==
    ev.hook = "_call" => ev.act = ev.started

---------------------------------------------------------------------------
\* The bind rule as a function of the scopes the run builds

\* the scopes of the activations: <<activation, position>>
Scopes == UNION {{<<a, k>> : k \in 1..Depth(Fields, a)} : a \in DOMAIN activations}

ScopeAt(s) == activations[s[1]].dependencies[s[2]]

\* the bind rule looks into the scope for the value
BindApplies(value, depa) == ~Immutable(value) \/ Len(depa.dependencies) = 1

\* the mode the bind rule leaves on the dependency it matched
Rewritten(mode) ==
    IF mode \in {"dependency", "dependency-bind"} THEN "assign"
    ELSE IF mode \in {m \o "-bind" : m \in BaseModes} THEN mode
    ELSE mode \o "-bind"

\* r is the result of the bind rule having matched dependency `ref`, and that one only
BoundTo(r, ref) ==
    /\ r.id = heap[ref].value_id
    /\ r.c.values = values
    /\ r.c.heap = [heap EXCEPT ![ref].mode = Rewritten(@)]

\* C24: when find_value_id finds in the scope a Dependency whose value is the captured
\* object, it returns the value id of the first such Dependency, creates no Value, and
\* rewrites the mode of that Dependency only: dependency* becomes assign, another mode
\* not ending in -bind gains the suffix -bind, a mode ending in -bind stays.
C24_BindRuleRewritesFirstMatch ==
    \A s \in Scopes : \A create \in BOOLEAN :
       \A i \in 1..Len(ScopeAt(s).dependencies) :
          LET value == heap[ScopeAt(s).dependencies[i]].value
          IN (BindApplies(value, ScopeAt(s)) /\ FirstBound(Fields, ScopeAt(s), value) = i) =>
                BoundTo(find_value_id(Fields, value, ScopeAt(s), create), ScopeAt(s).dependencies[i])

\* C24 witness: a scope holds two dependencies on the same mutable object, the first
\* of a mode the rule suffixes, and the rule has already rewritten a mode that was
\* stored
C24_BindRuleMatched ==
    /\ \E s \in Scopes : \E i, j \in 1..Len(ScopeAt(s).dependencies) :
          /\ i < j
          /\ heap[ScopeAt(s).dependencies[i]].value = heap[ScopeAt(s).dependencies[j]].value
          /\ ~Immutable(heap[ScopeAt(s).dependencies[i]].value)
          /\ heap[ScopeAt(s).dependencies[i]].mode \notin {"dependency", "assign"}
          /\ FirstBound(Fields, ScopeAt(s), heap[ScopeAt(s).dependencies[i]].value) = i
    /\ \E d \in 1..Len(dependencies) : dependencies[d].mode \in {"assign", "collection-bind"}

\* the immutable objects the expressions of the script evaluate to
ImmutableObjects == {o \in ExprValues \cup {"None"} : Immutable(o)}

\* r is the result of find_value_id having interned a new Value and touched no
\* Dependency
InternedFresh(r) ==
    /\ r.id \in (Len(values) + 1)..Len(r.c.values)
    /\ SubSeq(r.c.values, 1, Len(values)) = values
    /\ r.c.heap = heap

\* C25: for an immutable value the bind rule applies only when the scope holds exactly
\* one dependency; with none or with two or more, no value id is reused and no mode is
\* rewritten, even if a dependency refers to the object: with create=True a fresh Value
\* is interned, with create=False no Value is created and None is returned.
C25_ImmutableBoundOnlyWhenAlone ==
    \A s \in Scopes : \A value \in ImmutableObjects :
       IF Len(ScopeAt(s).dependencies) = 1
       THEN heap[ScopeAt(s).dependencies[1]].value = value =>
               find_value_id(Fields, value, ScopeAt(s), FALSE).id = heap[ScopeAt(s).dependencies[1]].value_id
       ELSE /\ InternedFresh(find_value_id(Fields, value, ScopeAt(s), TRUE))
            /\ find_value_id(Fields, value, ScopeAt(s), FALSE) = [c |-> Fields, id |-> None]

\* C25 witness: _operation has captured an immutable result over two operands one of
\* which is that same object, and the result has a value id of its own
C25_ImmutableAmongTwo ==
    /\ ev.hook = "_operation"
    /\ Immutable(ev.value)
    /\ Cardinality({d \in 1..Len(dependencies) : dependencies[d].dependent_id = Len(evaluations)}) >= 2
    /\ \E d \in 1..Len(dependencies) :
          /\ dependencies[d].dependent_id = Len(evaluations)
          /\ dependencies[d].mode = "dependency"
          /\ values[evaluations[dependencies[d].dependency_id].value_id].value =
                values[evaluations[Len(evaluations)].value_id].value
          /\ evaluations[dependencies[d].dependency_id].value_id # evaluations[Len(evaluations)].value_id

---------------------------------------------------------------------------
\* Nested unpacking

\* C26: for a multiple target that holds another multiple target as a sub-target,
\* `(a, b), c = v`, assign completes without error and every leaf name is bound in the
\* context of the activation to an evaluation.
C26_NestedUnpackingCompletes ==
    (ev.hook = "assign" /\ ev.pattern = "(a, b), c") =>
       /\ ~ev.raised
       /\ \A nm \in {"a", "b", "c"} : activations[ev.act].context[nm] # None

---------------------------------------------------------------------------
\* Parameter matching

\* new_function_def has just matched the parameters of the wrapper ev.value in the
\* activation ev.act
Matched == ev.hook = "_call" /\ ev.value \in Wrappers /\ ~ev.raised

\* the dependencies the caller recorded as arguments of the activation
ArgumentsGiven(a) ==
    {s \in Scopes : s[1] = a /\ \E i \in 1..Len(ScopeAt(s).dependencies) :
                                   StartsWithArgument(heap[ScopeAt(s).dependencies[i]].mode)}

\* the positions of the positional parameters of the wrapper that have a default
Defaulted(w) ==
    {i \in 1..Len(functions[w].arguments.args) :
        i > Len(functions[w].arguments.args) - Len(functions[w].defaults.dependencies)}

\* the stored default dependency of the positional parameter at position i
DefaultOf(w, i) ==
    functions[w].defaults.dependencies[
        i - (Len(functions[w].arguments.args) - Len(functions[w].defaults.dependencies))]

\* the evaluation is new to the activation and depends on the dependency
BoundFrom(a, e, ref) ==
    /\ e # None
    /\ e > a
    /\ evaluations[e].activation_id = a
    /\ \E d \in 1..Len(dependencies) :
          /\ dependencies[d].dependent_id = e
          /\ dependencies[d].dependency_id = heap[ref].evaluation_id

\* C27: after _match_arguments every positional parameter that has a default and was
\* filled by no argument, the first defaulted parameter included, is bound in the
\* context of the activation to a new evaluation that depends on the stored default
\* dependency of that parameter.
C27_DefaultsBound ==
    (/\ Matched
     /\ ArgumentsGiven(ev.act) = {}
     /\ Len(functions[ev.value].defaults.dependencies) <= Len(functions[ev.value].arguments.args)) =>
       \A i \in Defaulted(ev.value) :
          BoundFrom(ev.act, activations[ev.act].context[functions[ev.value].arguments.args[i]],
                    DefaultOf(ev.value, i))

---------------------------------------------------------------------------
\* _match_arguments as a function of the keywords it is given

\* the largest number of keywords of a call
MaxKeywords == 3

\* the collector after construction
Blank ==
    [evaluations |-> <<>>,
     activations |-> (NowId :> [Activation(NowId, None, "<now>", None, None) EXCEPT !.closure = None]),
     activations_store |-> <<>>, dependencies |-> <<>>, values |-> <<>>, compartments |-> <<>>,
     code_components |-> <<>>, exceptions |-> <<>>, heap |-> <<>>,
     shared_types |-> [t \in TypeObjects |-> None],
     global_evaluations |-> [n \in Names |-> None],
     last_activation |-> NowId, functions |-> [w \in Wrappers |-> NoFunction],
     last_partial_save |-> 1, save_frequency |-> 0,
     marks |-> [k \in {StoreKinds[i] : i \in 1..Len(StoreKinds)} |-> 0],
     emitted |-> [k \in {StoreKinds[i] : i \in 1..Len(StoreKinds)} |-> <<>>],
     flushes |-> <<>>, trial_updates |-> <<>>, actlog |-> <<>>,
     now |-> 1, raised |-> FALSE, star |-> <<>>, entry |-> <<>>]

\* the keywords of a call: name=value with a value of the script, or the marker ** with
\* a mapping; no name twice
KeywordArguments ==
    [arg : {"a", "z"}, value : {"one", "lst"}] \cup [arg : {"**"}, value : Mappings]
KeywordLists ==
    {ks \in UNION {[1..n -> KeywordArguments] : n \in 0..MaxKeywords} :
        \A i, j \in 1..Len(ks) : ks[i].arg = ks[j].arg => i = j}

\* the scope _match_arguments reads, activation.dependencies[0], holding the keywords:
\* each the Dependency _argument makes of an evaluation of the caller, with its name
\* and the kind "keyword"
RECURSIVE GivenKeywords(_, _, _, _)
GivenKeywords(c, caller, callee, ks) ==
    IF ks = <<>> THEN c
    ELSE LET tagged(a) ==
                 [a.c EXCEPT !.heap[a.ref].arg = Head(ks).arg, !.heap[a.ref].kind = "keyword",
                             !.activations[callee].dependencies[1].dependencies = Append(@, a.ref)]
             made(r) == tagged(Alloc(r.c, Dependency(caller, r.id, Head(ks).value, r.value_id, "argument")))
         IN GivenKeywords(made(evaluate(c, caller, CodeOf("argument"), Head(ks).value, c.now, NoDepa)),
                          caller, callee, Tail(ks))

\* the call f(**keywords) of `def f(a, b)` or `def f(a, b, **c)`, up to _call
CallWithKeywords(kwarg, ks) ==
    LET defined(r) ==
            [r EXCEPT !.c.functions["f1"] =
                [closure_activation |-> r.id, block_id |-> CodeOf("function_def"),
                 arguments |-> [Arguments EXCEPT !.kwarg = kwarg], defaults |-> DependencyAware]]
        called(r) == [c |-> call(r.c, r.id, CodeOf("call"), "f1", "dependency"), caller |-> r.id]
        given(k) == [c |-> GivenKeywords(k.c.c, k.caller, k.c.id, ks), callee |-> k.c.id, caller |-> k.caller]
    IN given(called(defined(start_script(Blank, "main", CodeOf("script")))))

MatchInit ==
    \E kwarg \in {"", "c"}, ks \in KeywordLists :
       \E k \in {CallWithKeywords(kwarg, ks)} :
          /\ evaluations = k.c.evaluations
          /\ activations = k.c.activations
          /\ activations_store = k.c.activations_store
          /\ dependencies = k.c.dependencies
          /\ values = k.c.values
          /\ compartments = k.c.compartments
          /\ code_components = k.c.code_components
          /\ exceptions = k.c.exceptions
          /\ heap = k.c.heap
          /\ shared_types = k.c.shared_types
          /\ global_evaluations = k.c.global_evaluations
          /\ last_activation = k.c.last_activation
          /\ functions = k.c.functions
          /\ last_partial_save = k.c.last_partial_save
          /\ save_frequency = 0
          /\ marks = k.c.marks
          /\ emitted = k.c.emitted
          /\ flushes = k.c.flushes
          /\ trial_updates = k.c.trial_updates
          /\ actlog = k.c.actlog
          /\ clock = 1
          /\ script = "calls"
          /\ stack = <<Frame("script", k.caller, 0), [Frame("call", k.caller, 1) EXCEPT !.call = k.callee]>>
          /\ metascript = Alive
          /\ ev = NoEv

\* new_function_def runs: _match_arguments on the activation of the call
MatchArguments ==
    /\ stack # <<>> /\ Top.kind = "call"
    /\ \E w \in {new_function_def(Enter, functions["f1"])} :
          /\ Commit(w.c)
          /\ stack' = Append(Front(stack), [Frame("body", w.act, Depth(w.c, w.act)) EXCEPT !.call = w.act])
          /\ ev' = [NoEv EXCEPT !.hook = "_match_arguments", !.act = w.act, !.value = "f1",
                                !.raised = w.raised]
    /\ UNCHANGED clock

MatchNext == MatchArguments

MatchSpec == MatchInit /\ [][MatchNext]_vars

\* the keywords _match_arguments was given for the activation
KeywordsGiven(a) ==
    {ref \in {activations[a].dependencies[1].dependencies[i] :
                 i \in 1..Len(activations[a].dependencies[1].dependencies)} :
        heap[ref].kind = "keyword"}

\* the names of the positional parameters of the wrapper
Positional(w) == {functions[w].arguments.args[i] : i \in 1..Len(functions[w].arguments.args)}

\* an evaluation of the activation was made for the dependency, and the name is bound
RoutedTo(a, nm, ref) ==
    /\ activations[a].context[nm] # None
    /\ \E e \in 1..Len(evaluations) : a < e /\ BoundFrom(a, e, ref)

---------------------------------------------------------------------------
\* The records of a parameter binding

\* the positional parameters of the wrapper the matching has bound in the activation
BoundParameters(w, a) ==
    {i \in Defaulted(w) : activations[a].context[functions[w].arguments.args[i]] # None}

\* the dependency records of the evaluation
EdgesOf(e) == {d \in 1..Len(dependencies) : dependencies[d].dependent_id = e}

\* every binding of the call has one evaluation at the code id of the parameter, bound
\* in the context, and one dependency record, in the given mode, on the evaluation of
\* its argument, whose own mode is `argument`
BindingsStored(w, a, mode) ==
    /\ Cardinality({e \in 1..Len(evaluations) :
                       /\ evaluations[e].activation_id = a
                       /\ evaluations[e].code_component_id = CodeOf("param")}) =
          Cardinality(BoundParameters(w, a))
    /\ \A i \in BoundParameters(w, a) :
          LET e == activations[a].context[functions[w].arguments.args[i]]
          IN /\ evaluations[e].code_component_id = CodeOf("param")
             /\ evaluations[e].activation_id = a
             /\ Cardinality(EdgesOf(e)) = 1
             /\ \A d \in EdgesOf(e) :
                   /\ dependencies[d].dependency_id = heap[DefaultOf(w, i)].evaluation_id
                   /\ dependencies[d].mode = mode
             /\ heap[DefaultOf(w, i)].mode = "argument"

\* the call of a wrapper whose definition captured no more defaults than it has
\* parameters has matched its parameters
MatchedDefaults ==
    /\ Matched
    /\ Len(functions[ev.value].defaults.dependencies) <= Len(functions[ev.value].arguments.args)

\* C29 (as stated): each parameter binding emits exactly one Evaluation at the code id
\* of the parameter, records exactly one dependency edge from it to the evaluation of
\* the argument, stored with the mode `argument`, binds the parameter name to the new
\* evaluation, and leaves the mode of the argument Dependency equal to `argument`.
C29_BindingStoresArgument ==
    MatchedDefaults => BindingsStored(ev.value, ev.act, "argument")

\* C29 (amended): as stated, but the edge is stored with the mode `argument-bind`, the
\* mode the bind rule gives the argument while the evaluation is made.
C29_BindingStoresArgumentBind ==
    MatchedDefaults => BindingsStored(ev.value, ev.act, "argument-bind")

\* C29 witness: the call f() of `def f(a=1, b=2)` has bound b to its default
C29_DefaultBound ==
    /\ MatchedDefaults
    /\ BoundParameters(ev.value, ev.act) # {}
    /\ ArgumentsGiven(ev.act) = {}

---------------------------------------------------------------------------
\* The scope of a call

\* the scopes of the activation that hold a Dependency, and the Dependency objects
\* they hold
WrittenScopes(a) == {k \in 1..Depth(Fields, a) : activations[a].dependencies[k].dependencies # <<>>}
RecordedFor(a) ==
    UNION {{activations[a].dependencies[k].dependencies[i] :
               i \in 1..Len(activations[a].dependencies[k].dependencies)} : k \in WrittenScopes(a)}

\* C30: when _call finishes, every dependency the func and argument hooks recorded for
\* the call has a committed dependency edge from the evaluation of the call to its
\* evaluation, and the scope the hooks wrote to is the scope _call reads, the first
\* of the activation (stated for the calls of builtins, whose activation no other hook
\* writes to).
C30_RecordedDependenciesCommitted ==
    (ev.hook = "_call return" /\ activations[ev.act].func \in Builtins) =>
       /\ WrittenScopes(ev.act) \subseteq {1}
       /\ \A r \in RecordedFor(ev.act) :
             \E d \in 1..Len(dependencies) :
                /\ dependencies[d].dependent_id = ev.act
                /\ dependencies[d].dependency_id = heap[r].evaluation_id

---------------------------------------------------------------------------
\* The Dependency of an argument

\* the Dependency the last hook added to the scope of the activation under way
Pushed == heap[Last(TopScope(Fields, last_activation).dependencies)]

\* C31: the Dependency _argument pushes, the collected one or one on a new Evaluation,
\* is tagged with a kind among argument and keyword and has the mode `argument`, the
\* mode _match_arguments selects the arguments of the call by.
C31_ArgumentPushedWithArgumentMode ==
    ev.hook = "_argument" =>
       /\ Pushed.kind \in {"argument", "keyword"}
       /\ Pushed.mode = "argument"

---------------------------------------------------------------------------
\* The Dependency of a call result

\* C32: the Dependency _call appends for the result refers to the evaluation of the
\* call, has the mode the call hook recorded and the value id stored on the evaluation
\* of the call when it was closed.
C32_ResultDependencySharesValueId ==
    ev.hook = "_call return" =>
       /\ Pushed.evaluation_id = ev.act
       /\ Pushed.mode = activations[ev.act].depedency_type
       /\ Pushed.value_id = evaluations[ev.act].value_id

---------------------------------------------------------------------------
\* The activation a wrapper works on

\* the wrapper of a definition has run up to its body, called by _call or by a builtin
WrapperRan == ev.hook \in {"_call", "callback"} /\ ev.value \in Wrappers /\ ~ev.raised

\* C33: the activation on which a wrapper sets closure and code_block_id and matches
\* the arguments is the activation the call hook started for that function, and the
\* activation of a builtin call keeps the code_block_id -1.
C33_WrapperWorksOnItsOwnActivation ==
    /\ WrapperRan => (ev.act = ev.started /\ activations[ev.act].func = ev.value)
    /\ \A a \in DOMAIN activations :
          activations[a].func \in Builtins => activations[a].code_block_id = NoDefinition

---------------------------------------------------------------------------
\* Function definitions

\* C34: a function definition runs _function_def, its decorator and the decorator of
\* collect_function_def in that order; the decorators create exactly one Evaluation,
\* for the function, in the enclosing activation, whose context binds the name of the
\* function to it; the scope of default dependencies _function_def popped is the one
\* kept for parameter matching; the scope stack of the enclosing activation is back at
\* the depth it had before function_def.
C34_FunctionDefinition ==
    [][/\ ev'.hook = "_function_def" =>
             /\ evaluations' = evaluations
             /\ Last(stack').defaults = TopScope(Fields, Act)
       /\ ev'.hook = "_function_def.dec" =>
             /\ ev.hook = "_function_def"
             /\ Len(evaluations') = Len(evaluations) + 1
             /\ functions'[ev'.value].defaults = Top.defaults
       /\ ev'.hook = "collect_function_def.dec" =>
             /\ ev.hook = "_function_def.dec"
             /\ evaluations' = evaluations
             /\ functions' = functions
             /\ activations'[ev'.act].context[NameOf(ev'.value)] = Len(evaluations)
             /\ evaluations[Len(evaluations)].activation_id = ev'.act
             /\ values[evaluations[Len(evaluations)].value_id].value = Repr(ev'.value)
             /\ Len(activations'[ev'.act].dependencies) = ev'.depth0]_vars

\* C34 witness: a function whose definition collected a default has been defined
C34_DefinedWithDefault ==
    /\ ev.hook = "collect_function_def.dec"
    /\ functions[ev.value].defaults.dependencies # <<>>
    /\ activations[ev.act].context[NameOf(ev.value)] # None

---------------------------------------------------------------------------
\* Exceptions caught by user code

\* the depth the scope stack of the activation of a frame has between two statements
StatementDepth(frame) == IF frame.kind = "script" THEN 1 ELSE frame.depth0

\* C35: when an exception raised inside a sub-expression has passed pending
\* before-hooks and is caught by user code, the scope stack of the activation that
\* catches it is at the depth it has between statements, and the activation has no
\* pending assignment.
C35_ScopesRestoredAfterCaughtException ==
    (ev.hook \in {"raise", "_call"} /\ ev.raised /\ stack # <<>>) =>
       /\ Depth(Fields, Top.act) = StatementDepth(Top)
       /\ activations[Top.act].assignments = <<>>

---------------------------------------------------------------------------
\* The compartments of a dict literal

\* the compartments _dict adds for the items collected, in a dict whose value id is whole
PairCompartments(items, whole) ==
    [i \in 1..Len(items) |->
        [name |-> "[" \o Repr(items[i].key) \o "]", moment |-> items[i].moment,
         whole_id |-> whole, part_id |-> items[i].value_id]]

\* C36: _dict_key keeps the key of the pair; _dict_value makes the item evaluation of
\* the pair and collects, after the pairs before it, the key, the value id and the
\* moment of that evaluation, the reading of the clock; _dict adds one Compartment for
\* each pair collected, in that order, named "[" + repr(key) + "]", whose container is
\* the value of the dict evaluation, whose member is the value of the item evaluation
\* and whose moment is the moment of the item evaluation; the moments of successive
\* pairs never decrease.
C36_DictCompartments ==
    [][/\ ev'.hook = "_dict_key" => Last(activations'[ev'.act].dependencies).key = ev'.value
       /\ ev'.hook = "_dict_value" =>
             LET before == activations[ev'.act].dependencies
                 e == Len(evaluations')
             IN /\ e = Len(evaluations) + 1
                /\ evaluations'[e].moment = clock
                /\ Last(activations'[ev'.act].dependencies).items =
                      Append(before[Len(before) - 2].items,
                             [key |-> before[Len(before) - 1].key,
                              value_id |-> evaluations'[e].value_id,
                              moment |-> evaluations'[e].moment])
       /\ ev'.hook = "_dict" =>
             LET items == TopScope(Fields, ev'.act).items
                 e == Len(evaluations')
             IN /\ e = Len(evaluations) + 1
                /\ Len(items) = Len(TopScope(Fields, ev'.act).dependencies)
                /\ compartments' = compartments \o PairCompartments(items, evaluations'[e].value_id)
                /\ \A i, j \in 1..Len(items) : i < j => items[i].moment <= items[j].moment]_vars

\* C36 witness: a dict literal of two pairs, built while the clock advanced, got two
\* compartments whose moments differ
C36_TwoPairsApart ==
    /\ ev.hook = "_dict"
    /\ \E i, j \in 1..Len(compartments) :
          /\ i < j
          /\ compartments[i].whole_id = evaluations[Len(evaluations)].value_id
          /\ compartments[j].whole_id = evaluations[Len(evaluations)].value_id
          /\ compartments[i].moment < compartments[j].moment

---------------------------------------------------------------------------
\* The Dependency of a collection literal

\* the i-th smallest element of a set of numbers
Nth(S, i) == CHOOSE k \in S : Cardinality({j \in S : j <= k}) = i

\* the Dependency the last hook added to the scope of its activation
Collected == heap[Last(TopScope(Fields, ev.act).dependencies)]

\* C37: the after-form of a collection hook (dict, list, set, tuple) has popped its
\* scope, created one Evaluation and added one Dependency on it, in a collection mode,
\* whose sub_dependencies are the dependencies collected for the items, one per item
\* in item order (the items are those the evaluation of the collection depends on).
C37_CollectionCopiesSubDependencies ==
    ev.hook \in {"_dict", "_list"} =>
       /\ ev.depth1 = ev.depthb - 1
       /\ Collected.evaluation_id = Len(evaluations)
       /\ Collected.mode \in {"collection", "assign"}
       /\ Len(Collected.sub_dependencies) = Cardinality(EdgesOf(Len(evaluations)))
       /\ \A i \in 1..Len(Collected.sub_dependencies) :
             heap[Collected.sub_dependencies[i]].evaluation_id =
                dependencies[Nth(EdgesOf(Len(evaluations)), i)].dependency_id

---------------------------------------------------------------------------
\* Name lookup

\* the activation, its closure, the closure of its closure and so on
RECURSIVE ClosureChain(_, _)
ClosureChain(a, seen) ==
    IF a = None \/ a \in seen THEN <<>>
    ELSE <<a>> \o ClosureChain(activations[a].closure, seen \cup {a})

\* the evaluation the nearest activation of the chain binds the name to, None if none
NearestBinding(chain, n) ==
    LET bound == {i \in 1..Len(chain) : activations[chain[i]].context[n] # None}
    IN IF bound = {} THEN None
       ELSE activations[chain[CHOOSE i \in bound : \A j \in bound : i <= j]].context[n]

\* a lookup that returned r2 found what the lookup before it returned and created nothing
LookupCached(r2, r) == r2.id = r.id /\ Persistent(r2.c) = Persistent(r.c)

\* what a lookup of the name from the activation returns (r) in the current state
LookupResult(r, a, n, nearest) ==
    IF nearest # None THEN r.id = nearest /\ Persistent(r.c) = Persistent(Fields)
    ELSE IF global_evaluations[n] # None
    THEN r.id = global_evaluations[n] /\ Persistent(r.c) = Persistent(Fields)
    ELSE IF n \in DOMAIN Globals
    THEN /\ r.id = Len(evaluations) + 1
         /\ Len(r.c.evaluations) = r.id
         /\ r.c.evaluations[r.id] = Evaluation(Len(code_components) + 1, -1, clock, Len(r.c.values))
         /\ Len(r.c.code_components) = Len(code_components) + 1
         /\ r.c.values[Len(r.c.values)].value = Repr(Globals[n])
         /\ r.c.global_evaluations = [global_evaluations EXCEPT ![n] = r.id]
         /\ LookupCached(lookup(r.c, a, n), r)
    ELSE r.id = None /\ Persistent(r.c) = Persistent(Fields)

\* the activations the transformed code under way passes to the hooks
LookupSites == {last_activation} \cup {stack[i].act : i \in 1..Len(stack)}

\* C38: lookup returns the evaluation the name is bound to in the context of the
\* activation, else in the nearest activation along the closures, else the one in
\* global_evaluations, else for a builtin a global evaluation it creates (one
\* evaluation at a new code component, with a new value) and caches, a second lookup
\* returning it and creating nothing, else no evaluation, nothing being created.
C38_LookupPrecedence ==
    \A a \in LookupSites, n \in Names :
       LookupResult(lookup(Enter, a, n), a, n, NearestBinding(ClosureChain(a, {}), n))

\* C38 witness: the name hook has read a builtin name the activation has bound, after
\* a lookup had made the global evaluation of the builtin: the read depends on the
\* evaluation bound in the context
C38_ShadowedBuiltinRead ==
    /\ ev.hook = "name" /\ ev.has_code /\ ev.name \in DOMAIN Globals
    /\ global_evaluations[ev.name] # None
    /\ activations[ev.act].context[ev.name] # None
    /\ \E d \in EdgesOf(Len(evaluations)) :
          dependencies[d].dependency_id = activations[ev.act].context[ev.name]

---------------------------------------------------------------------------
\* The literal hook

\* the types on the type chain of the object that have no shared Value yet
UnsharedTypes(o) == {t \in {TypeOf(o), "type"} : shared_types[t] = None}

\* a step of the literal hook that adds the given number of Values: the last Value is
\* that of the literal, the one Evaluation added is in the activation given, at the
\* code id given, with that value id; one Dependency on it, in the mode given, is
\* added to the top scope of the activation; no Dependency record is stored and
\* nothing else of the activations changes (scope stack depth, context)
LiteralStep(added) ==
    ev'.hook = "literal" =>
       LET a == ev'.act
           e == Len(evaluations) + 1
           top == Len(activations[a].dependencies)
       IN /\ Len(values') = Len(values) + added
          /\ values'[Len(values')].value = Repr(ev'.value)
          /\ evaluations' = Append(evaluations, Evaluation(CodeOf("literal"), a, clock, Len(values')))
          /\ heap' = Append(heap, Dependency(a, e, ev'.value, Len(values'), "dependency"))
          /\ activations' = [activations EXCEPT ![a].dependencies[top].dependencies =
                                Append(@, Len(heap) + 1)]
          /\ dependencies' = dependencies

\* C39 (as stated): the literal hook creates exactly one Value and exactly one
\* Evaluation, adds exactly one Dependency to the top scope and changes nothing else.
C39_LiteralCreatesOneValue == [][LiteralStep(1)]_vars

\* C39 (amended): as stated, but besides the Value of the literal the hook creates
\* one Value for each type on the type chain of the literal that has none yet.
C39_LiteralCreatesValueAndUnsharedTypes ==
    [][LiteralStep(1 + Cardinality(UnsharedTypes(ev'.value)))]_vars

\* C39 witness: a second literal of the same object has been captured: its type was
\* shared and one Value was added
C39_SecondLiteral ==
    /\ ev.hook = "literal"
    /\ Cardinality({v \in 1..Len(values) : values[v].value = Repr(ev.value)}) = 2
    /\ Cardinality({v \in 1..Len(values) : values[v].value = Repr(TypeOf(ev.value))}) = 1

---------------------------------------------------------------------------
\* Partial saves

\* a save frequency is configured and more than one period has elapsed since the
\* last save
StoreDue == save_frequency # 0 /\ clock - last_partial_save > save_frequency

\* hooks that call time() every time they run
TimedHooks == {"start_script", "close_script", "literal", "_operation", "_dict", "_dict_value",
               "_list", "_item", "_func", "_assign_value", "_call return"}

\* what a call of time() in the current state returns (r): when a store is due, one
\* partial store was made, last_partial_save is the reading of the clock and a second
\* call of time() changes nothing; when none is due, nothing has changed
TimeEffect(r) ==
    IF StoreDue
    THEN /\ r.flushes = Append(flushes, Last(r.flushes))
         /\ Last(r.flushes).partial
         /\ r.last_partial_save = clock
         /\ time(r) = r
    ELSE r = Enter

\* C40: time() makes a partial store if and only if a save frequency is configured and
\* the time elapsed since last_partial_save is strictly greater than it; every store,
\* partial or final, sets last_partial_save to the time of the store, so that a call
\* of time() right after a store makes no store; without a save frequency no partial
\* store is ever made. A step makes at most one store; a step of a hook that calls
\* time() makes one when it is due.
C40_TimeStoresWhenDue ==
    /\ [](/\ TimeEffect(time(Enter))
          /\ \A status \in Statuses : store(Enter, FALSE, status).last_partial_save = clock
          /\ save_frequency = 0 => \A i \in 1..Len(flushes) : ~flushes[i].partial)
    /\ [][/\ Len(flushes') <= Len(flushes) + 1
          /\ Len(flushes') = Len(flushes) => last_partial_save' = last_partial_save
          /\ Len(flushes') = Len(flushes) + 1 =>
                /\ last_partial_save' = clock
                /\ Last(flushes').partial => StoreDue
          /\ (ev'.hook \in TimedHooks /\ StoreDue) => Len(flushes') = Len(flushes) + 1]_vars

\* C40 witness: after a partial store, a hook has called time() when exactly one save
\* period had elapsed, and no store was made
C40_CalledAtFrequency ==
    /\ ev.hook \in TimedHooks
    /\ flushes # <<>> /\ Last(flushes).partial
    /\ save_frequency # 0
    /\ clock - last_partial_save = save_frequency

====
